---- MODULE Spec2Model ----
(***************************************************************************)
(* State-machine model of the wgpu-vxgi renderer core:                     *)
(*   - Scene::from_gltf / create_buffer_if_new      (src/src/gltf_loader.rs) *)
(*   - Scene::generate_pipeline / draw_pipelines    (src/src/gltf_loader.rs) *)
(*   - VoxelTexture::new / run_generate_mipmaps     (src/src/voxel_texture.rs)*)
(*   - State::new / State::render                   (src/src/lib.rs)        *)
(* GPU objects are modelled by the descriptors they are created from plus  *)
(* a creation id; a Rust panic is modelled as the phase "panicked".        *)
(***************************************************************************)
EXTENDS Integers, Sequences, FiniteSets, TLC

VARIABLES
    phase,           \* position of the scene build: "loading", "building", "built", "panicked"
    gltf,            \* the parsed scene description handed to Scene::from_gltf
    nodes,           \* from_gltf: work list of (node, parent_transform)
    buffers,         \* from_gltf / Scene.buffers: view index -> GPU buffer
    device_buffers,  \* every buffer device.create_buffer made for a view, in creation order
    bind_groups,     \* from_gltf / Scene.bind_groups
    render_datas,    \* from_gltf / Scene.render_datas
    pipeline_lists,  \* Scene.pipeline_lists: pass name -> PipelineData
    n_pipelines,     \* number of render pipelines the device has compiled
    calls,           \* the generate_pipeline calls made on the scene so far, in order
    pass_cmds,       \* commands recorded by the last draw_pipelines call
    pass_name,       \* the pass name the last draw_pipelines call was given
    vox,             \* the VoxelTexture value (VoxelTexture::new)
    vox_pc,          \* position of the voxel code: "none", "ready", "recording", "done"
    vox_i,           \* run_generate_mipmaps: loop index of the for_each
    compute_pass,    \* run_generate_mipmaps: commands recorded in the compute pass
    app_pc,          \* State::new / render: position in the orchestrator
    encoder,         \* the command encoder being recorded
    submitted,       \* command buffers handed to queue.submit, in order
    frames           \* number of render() calls made

vars == << phase, gltf, nodes, buffers, device_buffers, bind_groups, render_datas,
           pipeline_lists, n_pipelines, calls, pass_cmds, pass_name, vox, vox_pc, vox_i,
           compute_pass,
           app_pc, encoder, submitted, frames >>

sceneVars == << phase, gltf, nodes, buffers, device_buffers, bind_groups, render_datas >>
pipeVars  == << pipeline_lists, n_pipelines, calls, pass_cmds, pass_name >>
voxVars   == << vox, vox_pc, vox_i, compute_pass >>
appVars   == << app_pc, encoder, submitted, frames >>

-----------------------------------------------------------------------------
(* Bounds of the model *)

MaxNodes == 3        \* nodes in a generated forest
MaxDim == 5          \* largest small voxel extent tried besides the program's 512
MaxFrames == 2       \* render() calls explored
MaxRegs == 3         \* generate_pipeline calls explored per scene
MaxLength == 16      \* byte lengths of a view the allocation size is computed for

Half == 65536        \* 2^16: a u32 is kept as << high half, low half >>

-----------------------------------------------------------------------------
(* cgmath::Matrix4: four columns of four entries (column-major).           *)

Identity == << <<1,0,0,0>>, <<0,1,0,0>>, <<0,0,1,0>>, <<0,0,0,1>> >>

\* Matrix4 * Matrix4: column c of the product is a * (column c of b)
MatMul(a, b) ==
    [c \in 1..4 |-> [r \in 1..4 |->
        a[1][r]*b[c][1] + a[2][r]*b[c][2] + a[3][r]*b[c][3] + a[4][r]*b[c][4]]]

\* local transforms a node may carry: a translation and a quarter turn about z
Translate == << <<1,0,0,0>>, <<0,1,0,0>>, <<0,0,1,0>>, <<1,2,3,1>> >>
RotateZ   == << <<0,1,0,0>>, <<-1,0,0,0>>, <<0,0,1,0>>, <<0,0,0,1>> >>
LocalTransforms == {Translate, RotateZ}

-----------------------------------------------------------------------------
(* The scene description (gltf crate values the loader reads).              *)

\* Option::None for an index-valued option
None == -1

\* gltf::buffer::View: index(), buffer().index(), offset(), length(), stride()
View(index, buffer, offset, length, stride) ==
    [index |-> index, buffer |-> buffer, offset |-> offset, length |-> length,
     stride |-> stride]

NoView == View(None, None, 0, 0, None)

\* gltf::Accessor: view(), count(), offset(), data_type(), dimensions(), normalized()
Accessor(view, count, offset, data_type, dimensions, normalized) ==
    [view |-> view, count |-> count, offset |-> offset, data_type |-> data_type,
     dimensions |-> dimensions, normalized |-> normalized]

\* gltf::Semantic
Semantic(kind, set) == [kind |-> kind, set |-> set]

\* decoded buffers (buffer_contents): the byte length of each, indexed from 0
BufferLengths == << 130 >>

\* buffer views of the document
V0 == View(0, 0, 0, 36, None)      \* length a multiple of 4
V1 == View(1, 0, 36, 48, 24)       \* interleaved, declares its stride
V2 == View(2, 0, 84, 6, None)      \* length not a multiple of 4, bytes follow it
V3 == View(3, 0, 124, 6, None)     \* length not a multiple of 4, ends the buffer
V4 == View(4, 0, 92, 32, None)
V5 == View(5, 1, 0, 12, None)      \* names a buffer that was not decoded

\* vertex accessors
APos      == Accessor(V0, 3, 0, "F32", "Vec3", FALSE)
APosI     == Accessor(V1, 2, 0, "F32", "Vec3", FALSE)
ANormal   == Accessor(V1, 2, 12, "F32", "Vec3", FALSE)
ATex      == Accessor(V4, 4, 0, "F32", "Vec2", FALSE)
AColor    == Accessor(V4, 3, 0, "U8", "Vec4", TRUE)
ASparse   == Accessor(NoView, 5, 0, "F32", "Vec3", FALSE)
ABadFmt   == Accessor(V0, 3, 0, "U8", "Vec3", FALSE)
APosFar   == Accessor(V5, 1, 0, "F32", "Vec3", FALSE)
\* index accessors
AIdx16    == Accessor(V2, 3, 0, "U16", "Scalar", FALSE)
AIdx32    == Accessor(V4, 2, 4, "U32", "Scalar", FALSE)
AIdx8     == Accessor(V2, 6, 0, "U8", "Scalar", FALSE)
AIdxShare == Accessor(V0, 6, 0, "U16", "Scalar", FALSE)
AIdxEnd   == Accessor(V3, 3, 0, "U16", "Scalar", FALSE)
AIdxSparse == Accessor(NoView, 3, 0, "U16", "Scalar", FALSE)
AIdxFar   == Accessor(V5, 6, 0, "U16", "Scalar", FALSE)

\* one (semantic, accessor) entry of primitive.attributes()
Attr(semantic, accessor) == [semantic |-> semantic, accessor |-> accessor]

\* gltf::Material as read by from_gltf: the three optional texture references
\* (the image index behind info.texture().source()) and the factors
Material(base, mr, normal, alpha_cutoff) ==
    [base_color_texture |-> base, metallic_roughness_texture |-> mr,
     normal_texture |-> normal,
     base_color_factor |-> <<1, 1, 1, 1>>, metallic_factor |-> 1,
     roughness_factor |-> 1, alpha_cutoff |-> alpha_cutoff]

\* gltf::Primitive: attributes() in map order, indices(), material()
Primitive(attributes, indices, material) ==
    [attributes |-> attributes, indices |-> indices, material |-> material]

NoIndices == Accessor(NoView, None, 0, "None", "None", FALSE)

-----------------------------------------------------------------------------
(* Pure helpers of gltf_loader.rs and shader.rs                             *)

\* vertex formats with a fixed (normalized, dimensions, data_type) triple
gltf_accessor_to_wgpu_table ==
    { <<FALSE, "Vec2", "U8", "Uint8x2">>,    <<FALSE, "Vec4", "U8", "Uint8x4">>,
      <<FALSE, "Vec2", "I8", "Sint8x2">>,    <<FALSE, "Vec4", "I8", "Sint8x4">>,
      <<TRUE,  "Vec2", "U8", "Unorm8x2">>,   <<TRUE,  "Vec4", "U8", "Unorm8x4">>,
      <<TRUE,  "Vec2", "I8", "Snorm8x2">>,   <<TRUE,  "Vec4", "I8", "Snorm8x4">>,
      <<FALSE, "Vec2", "U16", "Uint16x2">>,  <<FALSE, "Vec4", "U16", "Uint16x4">>,
      <<FALSE, "Vec2", "I16", "Sint16x2">>,  <<FALSE, "Vec4", "I16", "Sint16x4">>,
      <<TRUE,  "Vec2", "U16", "Unorm16x2">>, <<TRUE,  "Vec4", "U16", "Unorm16x4">>,
      <<TRUE,  "Vec2", "I16", "Snorm16x2">>, <<TRUE,  "Vec4", "I16", "Snorm16x4">>,
      <<FALSE, "Scalar", "U32", "Uint32">>,  <<FALSE, "Vec2", "U32", "Uint32x2">>,
      <<FALSE, "Vec3", "U32", "Uint32x3">>,  <<FALSE, "Vec4", "U32", "Uint32x4">> }

\* Option<wgpu::VertexFormat>: "None" stands for Option::None
gltf_accessor_to_wgpu(accessor) ==
    LET hits == { t \in gltf_accessor_to_wgpu_table :
                    /\ t[1] = accessor.normalized
                    /\ t[2] = accessor.dimensions
                    /\ t[3] = accessor.data_type }
    IN  IF hits # {} THEN (CHOOSE t \in hits : TRUE)[4]
        ELSE IF accessor.data_type = "F32" /\ accessor.dimensions = "Scalar" THEN "Float32"
        ELSE IF accessor.data_type = "F32" /\ accessor.dimensions = "Vec2" THEN "Float32x2"
        ELSE IF accessor.data_type = "F32" /\ accessor.dimensions = "Vec3" THEN "Float32x3"
        ELSE IF accessor.data_type = "F32" /\ accessor.dimensions = "Vec4" THEN "Float32x4"
        ELSE "None"

\* a conversion that takes 8-bit indices for 16-bit ones
gltf_accessor_to_indexformat_Narrow(accessor) ==
    IF accessor.data_type \in {"U8", "U16"} THEN "Uint16"
    ELSE IF accessor.data_type = "U32" THEN "Uint32"
    ELSE "None"

\* Option<wgpu::IndexFormat>
gltf_accessor_to_indexformat(accessor) ==
    IF accessor.data_type = "U16" THEN "Uint16"
    ELSE IF accessor.data_type = "U32" THEN "Uint32"
    ELSE "None"

\* byte width of a wgpu::IndexFormat
IndexFormatBytes(format) == IF format = "Uint16" THEN 2 ELSE IF format = "Uint32" THEN 4 ELSE 0

get_accessor_component_count(accessor) ==
    CASE accessor.dimensions = "Scalar" -> 1
      [] accessor.dimensions = "Vec2" -> 2
      [] accessor.dimensions = "Vec3" -> 3
      [] accessor.dimensions = "Vec4" -> 4
      [] accessor.dimensions = "Mat2" -> 4
      [] accessor.dimensions = "Mat3" -> 9
      [] accessor.dimensions = "Mat4" -> 16

get_accessor_type_size(accessor) ==
    CASE accessor.data_type \in {"I8", "U8"} -> 1
      [] accessor.data_type \in {"I16", "U16"} -> 2
      [] accessor.data_type \in {"U32", "F32"} -> 4

get_default_array_stride(accessor) ==
    get_accessor_component_count(accessor) * get_accessor_type_size(accessor)

\* impl From<&gltf::Semantic> for Attribute
AttributeFrom(semantic) ==
    CASE semantic.kind = "Positions" -> "Positions"
      [] semantic.kind = "Normals" -> "Normals"
      [] semantic.kind = "Tangents" -> "Tangents"
      [] semantic.kind = "Colors" /\ semantic.set = 0 -> "Colors"
      [] semantic.kind = "TexCoords" /\ semantic.set = 0 -> "TexCoords"
      [] semantic.kind = "Joints" /\ semantic.set = 0 -> "Joints"
      [] semantic.kind = "Weights" /\ semantic.set = 0 -> "Weights"
      [] OTHER -> "Unknown"

\* enum Attribute discriminants (shader.rs)
AttributeDiscriminant(attribute) ==
    CASE attribute = "Positions" -> 0
      [] attribute = "TexCoords" -> 1
      [] attribute = "Normals" -> 2
      [] attribute = "Tangents" -> 3
      [] attribute = "Joints" -> 4
      [] attribute = "Weights" -> 5
      [] attribute = "Colors" -> 6
      [] attribute = "Unknown" -> -1

\* `as u32` of an i32-sized discriminant: two's complement, kept as two 16-bit halves
AsU32(x) ==
    LET lo == x % Half
        hi == ((x - lo) \div Half) % Half
    IN  << hi, lo >>

-----------------------------------------------------------------------------
(* Scene::create_buffer_if_new                                               *)

\* wgpu::BufferUsages
VertexUsage == {"VERTEX", "COPY_DST"}
IndexUsage  == {"INDEX", "COPY_DST"}

\* a size that is always pushed to the next multiple of 4
BufferSize_NextMultiple(view) == (view.length \div 4 + 1) * 4

\* lines 246-249: the allocation size for a view
BufferSize(view) ==
    IF view.length % 4 # 0 THEN (view.length \div 4 + 1) * 4 ELSE view.length

\* a slice that is not checked against the number of decoded buffers
SliceInRange_NoBufferCheck(view, size) ==
    \/ view.buffer \notin 0 .. (Len(BufferLengths) - 1)
    \/ view.offset + size <= BufferLengths[view.buffer + 1]

\* line 260: the slice taken from buffer_contents is in range
SliceInRange(view, size) ==
    /\ view.buffer \in 0 .. (Len(BufferLengths) - 1)
    /\ view.offset + size <= BufferLengths[view.buffer + 1]

\* a cache that never finds an existing entry
IsNewView_NoLookup(cache, view) == TRUE

\* line 245: the guard of create_buffer_if_new
IsNewView(cache, view) == view.index \notin DOMAIN cache.buffers

\* a cache that hands an existing buffer over to the usage of the latest request
create_buffer_if_new_Retag(cache, view, usage) ==
    IF IsNewView(cache, view) THEN
        LET size == BufferSize(view)
            buffer == [id |-> Len(cache.device_buffers) + 1,
                       label |-> view.index,
                       size |-> size,
                       usage |-> usage,
                       src_buffer |-> view.buffer,
                       src_from |-> view.offset,
                       src_to |-> view.offset + size]
        IN  IF SliceInRange(view, size)
            THEN [cache EXCEPT !.device_buffers = Append(@, buffer),
                               !.buffers = (view.index :> buffer) @@ @]
            ELSE [cache EXCEPT !.device_buffers = Append(@, buffer),
                               !.panicked = TRUE]
    ELSE [cache EXCEPT !.device_buffers[cache.buffers[view.index].id].usage = usage,
                       !.buffers[view.index].usage = usage]

\* cache = [buffers, device_buffers, panicked]
create_buffer_if_new(cache, view, usage) ==
    IF IsNewView(cache, view) THEN
        LET size == BufferSize(view)
            buffer == [id |-> Len(cache.device_buffers) + 1,
                       label |-> view.index,
                       size |-> size,
                       usage |-> usage,
                       src_buffer |-> view.buffer,
                       src_from |-> view.offset,
                       src_to |-> view.offset + size]
        IN  IF SliceInRange(view, size)
            THEN [cache EXCEPT !.device_buffers = Append(@, buffer),
                               !.buffers = (view.index :> buffer) @@ @]
            ELSE [cache EXCEPT !.device_buffers = Append(@, buffer),
                               !.panicked = TRUE]
    ELSE cache

-----------------------------------------------------------------------------
(* Scene::from_gltf: one primitive (lines 402-542)                           *)

\* load_gltf lines 683-690: the two 1x1 default textures; lines 714-717: the images
white_texture == [label |-> "white_texture", pixel |-> <<255, 255, 255, 255>>, index |-> None]
default_normal_texture ==
    [label |-> "default_normal_texture", pixel |-> <<128, 128, 255, 255>>, index |-> None]
Image(i) == [label |-> "loaded image", pixel |-> <<>>, index |-> i]

\* a lookup that falls back to the white texture whatever default it is given
ResolveTexture_AlwaysWhite(reference, default) ==
    IF reference = None THEN white_texture ELSE Image(reference)

\* lines 410-423: `match ... { Some(info) => &images[..], None => default }`
ResolveTexture(reference, default) ==
    IF reference = None THEN default ELSE Image(reference)

\* lines 425-431
MaterialData(material) ==
    [base_color_factor |-> material.base_color_factor,
     metallic_factor |-> material.metallic_factor,
     roughness_factor |-> material.roughness_factor,
     alpha_cut_off |-> IF material.alpha_cutoff = None THEN 0 ELSE material.alpha_cutoff,
     filler |-> 0]

\* lines 440-477: the material binding group
MaterialBindGroup(node, material) ==
    [kind |-> "material",
     node |-> node,
     contents |-> MaterialData(material),
     textures |-> << ResolveTexture(material.base_color_texture, white_texture),
                     ResolveTexture(material.metallic_roughness_texture, white_texture),
                     ResolveTexture(material.normal_texture, default_normal_texture) >>]

\* lines 376-393: the transform binding group of a node
TransformBindGroup(node, total_transform) ==
    [kind |-> "transform", node |-> node, contents |-> total_transform, textures |-> << >>]

\* a stride computed from the accessor whatever the view declares
ArrayStride_Packed(view, accessor) == get_default_array_stride(accessor)

\* line 498
ArrayStride(view, accessor) ==
    IF view.stride # None THEN view.stride ELSE get_default_array_stride(accessor)

\* lines 497-505: VertexBufferLayoutBuilder::new(..)
VertexLayout(semantic, accessor) ==
    [array_stride |-> ArrayStride(accessor.view, accessor),
     step_mode |-> "Vertex",
     attributes |-> << [format |-> gltf_accessor_to_wgpu(accessor),
                        offset |-> 0,
                        shader_location |-> AsU32(AttributeDiscriminant(AttributeFrom(semantic)))] >>]

\* lines 507-510
ViewData(accessor) == [view_index |-> accessor.view.index, offset |-> accessor.offset]

\* a draw count taken from the first resolved attribute only
AttributeDrawCount_First(draw_count, accessor) ==
    IF draw_count = 0 THEN accessor.count ELSE draw_count

\* line 496: the draw count an attribute leaves behind
AttributeDrawCount(draw_count, accessor) == accessor.count

\* a push that leaves out the layout of an attribute tagged unknown
PushLayout_KnownOnly(layouts, semantic, accessor) ==
    IF AttributeFrom(semantic) = "Unknown" THEN layouts
    ELSE Append(layouts, VertexLayout(semantic, accessor))

\* lines 497-506: layouts.push(..)
PushLayout(layouts, semantic, accessor) ==
    Append(layouts, VertexLayout(semantic, accessor))

\* an iteration that takes the draw count of an attribute without a buffer view
AttributeStep_CountsViewless(p, attr) ==
    LET accessor == attr.accessor IN
    IF accessor.view = NoView THEN [p EXCEPT !.draw_count = accessor.count]
    ELSE
        LET b1 == create_buffer_if_new(p.b, accessor.view, VertexUsage) IN
        IF b1.panicked THEN [p EXCEPT !.b = b1]
        ELSE IF gltf_accessor_to_wgpu(accessor) = "None"
        THEN [p EXCEPT !.b = [b1 EXCEPT !.panicked = TRUE]]
        ELSE [p EXCEPT !.b = b1,
                       !.draw_count = AttributeDrawCount(@, accessor),
                       !.layouts = PushLayout(@, attr.semantic, accessor),
                       !.used_views = Append(@, ViewData(accessor))]

\* lines 482-511, one iteration; p = [b, layouts, used_views, draw_count]
AttributeStep(p, attr) ==
    LET accessor == attr.accessor IN
    IF accessor.view = NoView THEN p
    ELSE
        LET b1 == create_buffer_if_new(p.b, accessor.view, VertexUsage) IN
        IF b1.panicked THEN [p EXCEPT !.b = b1]
        ELSE IF gltf_accessor_to_wgpu(accessor) = "None"
        THEN [p EXCEPT !.b = [b1 EXCEPT !.panicked = TRUE]]
        ELSE [p EXCEPT !.b = b1,
                       !.draw_count = AttributeDrawCount(@, accessor),
                       !.layouts = PushLayout(@, attr.semantic, accessor),
                       !.used_views = Append(@, ViewData(accessor))]

RECURSIVE AttributeLoop(_, _, _)
AttributeLoop(p, attributes, k) ==
    IF k > Len(attributes) \/ p.b.panicked THEN p
    ELSE AttributeLoop(AttributeStep(p, attributes[k]), attributes, k + 1)

\* Option<IndexData>::None
NoIndexData == [present |-> FALSE, buffer_id |-> None, format |-> "None", offset |-> 0]

\* an index accessor that leaves the attributes' draw count in place
IndexDrawCount_Keep(draw_count, accessor) ==
    IF draw_count = 0 THEN accessor.count ELSE draw_count

\* line 524: the draw count an index accessor leaves behind
IndexDrawCount(draw_count, accessor) == accessor.count

\* lines 525-529
IndexData(accessor) ==
    [present |-> TRUE,
     buffer_id |-> accessor.view.index,
     format |-> gltf_accessor_to_indexformat(accessor),
     offset |-> accessor.offset]

\* lines 513-532; p = [b, layouts, used_views, draw_count], result adds index_data
IndexStep(p, indices) ==
    LET q == [b |-> p.b, layouts |-> p.layouts, used_views |-> p.used_views,
              draw_count |-> p.draw_count, index_data |-> NoIndexData]
    IN
    IF p.b.panicked \/ indices = NoIndices THEN q
    ELSE IF indices.view = NoView THEN [q EXCEPT !.b.panicked = TRUE]
    ELSE
        LET b1 == create_buffer_if_new(p.b, indices.view, IndexUsage) IN
        IF b1.panicked THEN [q EXCEPT !.b = b1]
        ELSE IF gltf_accessor_to_indexformat(indices) = "None"
        THEN [q EXCEPT !.b = [b1 EXCEPT !.panicked = TRUE]]
        ELSE [q EXCEPT !.b = b1,
                       !.draw_count = IndexDrawCount(@, indices),
                       !.index_data = IndexData(indices)]

\* a draw record that names the material group of the node's first primitive
PrimitiveRenderData_FirstMaterial(q, transform_bind_group_id, material_bind_group_id) ==
    [layouts |-> q.layouts,
     used_views |-> q.used_views,
     draw_count |-> q.draw_count,
     index_data |-> q.index_data,
     transform_bind_group_id |-> transform_bind_group_id,
     material_bind_group_id |-> transform_bind_group_id + 1]

\* lines 534-541
PrimitiveRenderData(q, transform_bind_group_id, material_bind_group_id) ==
    [layouts |-> q.layouts,
     used_views |-> q.used_views,
     draw_count |-> q.draw_count,
     index_data |-> q.index_data,
     transform_bind_group_id |-> transform_bind_group_id,
     material_bind_group_id |-> material_bind_group_id]

\* lines 402-542, one iteration of `for primitive in mesh.primitives()`;
\* b = [buffers, device_buffers, panicked, bind_groups, render_datas]
PrimitiveStep(b, node, primitive, transform_bind_group_id) ==
    LET material_bind_group_id == Len(b.bind_groups)
        b0 == [b EXCEPT !.bind_groups = Append(@, MaterialBindGroup(node, primitive.material))]
        p0 == [b |-> b0, layouts |-> << >>, used_views |-> << >>, draw_count |-> 0]
        q  == IndexStep(AttributeLoop(p0, primitive.attributes, 1), primitive.indices)
    IN  IF q.b.panicked THEN q.b
        ELSE [q.b EXCEPT !.render_datas =
                  Append(@, PrimitiveRenderData(q, transform_bind_group_id,
                                                material_bind_group_id))]

RECURSIVE PrimitiveLoop(_, _, _, _, _)
PrimitiveLoop(b, node, primitives, k, transform_bind_group_id) ==
    IF k > Len(primitives) \/ b.panicked THEN b
    ELSE PrimitiveLoop(PrimitiveStep(b, node, primitives[k], transform_bind_group_id),
                       node, primitives, k + 1, transform_bind_group_id)

-----------------------------------------------------------------------------
(* Scene descriptions the build is run on                                    *)

DefaultMaterial == Material(None, None, None, None)

Positions == Semantic("Positions", 0)
Normals   == Semantic("Normals", 0)

\* attribute maps of a primitive, in the map's iteration order
AttributeLists ==
    { << >>,
      << Attr(Positions, APos) >>,
      << Attr(Positions, APosI), Attr(Normals, ANormal) >>,
      << Attr(Positions, APos), Attr(Semantic("TexCoords", 0), ATex) >>,
      << Attr(Positions, APos), Attr(Semantic("Colors", 0), AColor) >>,
      << Attr(Positions, APos), Attr(Semantic("Colors", 1), AColor) >>,
      << Attr(Positions, APos), Attr(Semantic("TexCoords", 0), ASparse) >>,
      << Attr(Positions, ASparse) >>,
      << Attr(Positions, ASparse), Attr(Semantic("TexCoords", 0), ATex) >>,
      << Attr(Positions, APos), Attr(Normals, ABadFmt) >> }

IndexAccessors == { NoIndices, AIdx16, AIdx32, AIdx8, AIdxShare, AIdxEnd, AIdxSparse }

Primitives == { Primitive(a, i, DefaultMaterial) : a \in AttributeLists, i \in IndexAccessors }

PlainPrimitive   == Primitive(<< Attr(Positions, APos) >>, NoIndices, DefaultMaterial)
IndexedPrimitive == Primitive(<< Attr(Positions, APosI), Attr(Normals, ANormal) >>,
                              AIdx16, DefaultMaterial)

\* number of decoded images of the document
NumImages == 2
TextureRefs == {None} \cup (0 .. NumImages - 1)
Materials == { Material(b, m, n, c) : b \in TextureRefs, m \in TextureRefs,
                                      n \in TextureRefs, c \in {None} }

\* the elements of a finite set of integers in increasing order
RECURSIVE Ascending(_)
Ascending(S) ==
    IF S = {} THEN << >>
    ELSE LET m == CHOOSE x \in S : \A y \in S : x <= y
         IN  << m >> \o Ascending(S \ {m})

Reverse(seq) == [k \in 1 .. Len(seq) |-> seq[Len(seq) + 1 - k]]

\* a forest on nodes 1..n given by parent (0 for a root); the document lists roots
\* and children in increasing or in decreasing index order
Forest(n, parent, decreasing, transform, mesh, meshes) ==
    LET order(S) == IF decreasing THEN Reverse(Ascending(S)) ELSE Ascending(S)
    IN  [roots |-> order({ k \in 1 .. n : parent[k] = 0 }),
         children |-> [ m \in 1 .. n |-> order({ k \in 1 .. n : parent[k] = m }) ],
         transform |-> transform,
         mesh |-> mesh,
         meshes |-> meshes]

ParentMaps(n) == { f \in [1 .. n -> 0 .. n] : \A k \in 1 .. n : f[k] < k }

\* forests of every shape, nodes with or without the two-primitive mesh 0
ForestDocs ==
    UNION { { Forest(n, parent, decreasing, transform, mesh,
                     << << PlainPrimitive, IndexedPrimitive >> >>) :
                parent \in ParentMaps(n), decreasing \in BOOLEAN,
                transform \in [1 .. n -> LocalTransforms],
                mesh \in [1 .. n -> {None, 0}] } : n \in 0 .. MaxNodes }

\* one node whose mesh has two primitives of every kind
PrimitiveDocs ==
    { Forest(1, << 0 >>, FALSE, << Translate >>, << 0 >>, << << pa, pb >> >>) :
        pa \in Primitives, pb \in Primitives }

\* one node, one primitive, every material
MaterialDocs ==
    { Forest(1, << 0 >>, FALSE, << RotateZ >>, << 0 >>,
             << << Primitive(<< Attr(Positions, APos) >>, NoIndices, m) >> >>) :
        m \in Materials }

\* one node with a mesh of the given primitives
MeshNode(primitives) ==
    Forest(1, << 0 >>, FALSE, << Translate >>, << 0 >>, << primitives >>)

\* a vertex stream or an index stream in a buffer that was not decoded, after a
\* primitive that builds
FarBufferDocs ==
    { MeshNode(<< PlainPrimitive,
                  Primitive(<< Attr(Positions, APosFar) >>, NoIndices, DefaultMaterial) >>),
      MeshNode(<< PlainPrimitive,
                  Primitive(<< Attr(Positions, APos) >>, AIdxFar, DefaultMaterial) >>) }

Docs == ForestDocs \cup PrimitiveDocs \cup MaterialDocs \cup FarBufferDocs

-----------------------------------------------------------------------------
(* Scene::from_gltf                                                          *)

NoScene == [roots |-> << >>, children |-> << >>, transform |-> << >>,
            mesh |-> << >>, meshes |-> << >>]

\* lines 277-280: the work list seeded with every root and the identity
SeedNodes(doc) == [k \in 1 .. Len(doc.roots) |-> << doc.roots[k], Identity >>]

\* the product taken in the wrong order
TotalTransform_Swapped(parent_transform, local_transform) ==
    MatMul(local_transform, parent_transform)

\* line 368
TotalTransform(parent_transform, local_transform) == MatMul(parent_transform, local_transform)

\* a traversal that does not descend
PushChildren_Lost(work, children, total_transform) == work

\* a traversal that queues every child twice
PushChildren_Twice(work, children, total_transform) ==
    work \o [k \in 1 .. Len(children) |-> << children[k], total_transform >>]
         \o [k \in 1 .. Len(children) |-> << children[k], total_transform >>]

\* lines 370-372: every child is pushed with the node's total transform
PushChildren(work, children, total_transform) ==
    work \o [k \in 1 .. Len(children) |-> << children[k], total_transform >>]

\* line 365: nodes.pop() takes the last entry
PopIndex(work) == Len(work)

\* lines 275-362
FromGltfBegin ==
    /\ phase = "loaded"
    /\ phase' = "building"
    /\ nodes' = SeedNodes(gltf)
    /\ buffers' = << >>
    /\ bind_groups' = << >>
    /\ render_datas' = << >>
    /\ UNCHANGED << gltf, device_buffers >>

\* lines 364-543: one iteration of `while nodes.len() > 0` that takes entry `at`
\* off the work list
FromGltfNodeAt(at) ==
    /\ phase = "building"
    /\ Len(nodes) > 0
    /\ LET node == nodes[at][1]
           parent_transform == nodes[at][2]
           rest == [k \in 1 .. Len(nodes) - 1 |-> IF k < at THEN nodes[k] ELSE nodes[k + 1]]
           total_transform == TotalTransform(parent_transform, gltf.transform[node])
           transform_bind_group_id == Len(bind_groups)
           b0 == [buffers |-> buffers, device_buffers |-> device_buffers,
                  panicked |-> FALSE,
                  bind_groups |-> Append(bind_groups,
                                         TransformBindGroup(node, total_transform)),
                  render_datas |-> render_datas]
           b1 == IF gltf.mesh[node] = None THEN b0
                 ELSE PrimitiveLoop(b0, node, gltf.meshes[gltf.mesh[node] + 1], 1,
                                    transform_bind_group_id)
       IN  IF b1.panicked
           THEN /\ phase' = "panicked"
                /\ nodes' = << >>
                /\ buffers' = << >>
                /\ bind_groups' = << >>
                /\ render_datas' = << >>
                /\ device_buffers' = b1.device_buffers
           ELSE /\ phase' = "building"
                /\ nodes' = PushChildren(rest, gltf.children[node], total_transform)
                /\ buffers' = b1.buffers
                /\ bind_groups' = b1.bind_groups
                /\ render_datas' = b1.render_datas
                /\ device_buffers' = b1.device_buffers
    /\ UNCHANGED gltf

\* lines 364-543 as written: the entry taken is the one nodes.pop() returns
FromGltfNode == FromGltfNodeAt(PopIndex(nodes))

\* lines 545-552: the loop has ended and the Scene value is returned
FromGltfReturn ==
    /\ phase = "building"
    /\ Len(nodes) = 0
    /\ phase' = "built"
    /\ UNCHANGED << gltf, nodes, buffers, device_buffers, bind_groups, render_datas >>

-----------------------------------------------------------------------------
(* VoxelTexture (voxel_texture.rs)                                           *)

\* the extent State::new gives the voxel volume in each direction (lib.rs line 187)
VoxelExtent == 512

\* 32 - n.leading_zeros(): the number of binary digits of n
RECURSIVE BitLength(_)
BitLength(n) == IF n = 0 THEN 0 ELSE 1 + BitLength(n \div 2)

Max(a, b) == IF a >= b THEN a ELSE b

\* max_mips of a two-dimensional texture, which leaves the depth out
max_mips_D2(size) == BitLength(Max(size[1], size[2]))

\* line 18: size.max_mips(wgpu::TextureDimension::D3); size = << width, height, depth >>
max_mips(size) == BitLength(Max(size[1], Max(size[2], size[3])))

\* lines 31-44: one view per mip level
MipView(i) == [base_mip_level |-> i, mip_level_count |-> 1]

\* lines 92-104: binding group i reads view i and writes view i + 1
MipBindGroup(views, i) ==
    [label |-> i, read |-> views[i + 1], write |-> views[(i + 1) + 1]]

\* lines 106-121
MipPipeline(i) == [label |-> i, entry_point |-> "comp_main"]

NoVoxelTexture ==
    [size |-> << 0, 0, 0 >>, mip_level_count |-> 0, views |-> << >>,
     pipelines |-> << >>, bind_groups |-> << >>]

\* lines 13-131
VoxelTextureNew(size) ==
    LET mip_level_count == max_mips(size)
        views == [k \in 1 .. mip_level_count |-> MipView(k - 1)]
    IN  [size |-> size,
         mip_level_count |-> mip_level_count,
         views |-> views,
         pipelines |-> [k \in 1 .. mip_level_count - 1 |-> MipPipeline(k - 1)],
         bind_groups |-> [k \in 1 .. mip_level_count - 1 |-> MipBindGroup(views, k - 1)]]

\* line 133
get_mip_0(v) == v.views[1]

\* line 58: the view made from the default descriptor spans every mip level
main_view(v) == [base_mip_level |-> 0, mip_level_count |-> v.mip_level_count]

\* a binding that is not a view of the voxel volume
NoTextureView == [base_mip_level |-> None, mip_level_count |-> None]

\* one command of a pass: the operation, and as `object` what it binds
Cmd(op, slot, object) == [op |-> op, slot |-> slot, object |-> object]

\* line 148
MipDispatch == Cmd("dispatch_workgroups", None, << 1, 1, 1 >>)

\* line 145: the exclusive end of the range 0..mip_level_count - 1
MipLoopEnd(v) == v.mip_level_count - 1

\* the levels reduced coarsest first
MipIteration_Reversed(v, i) ==
    << Cmd("set_pipeline", None, v.pipelines[Len(v.pipelines) - i]),
       Cmd("set_bind_group", 0, v.bind_groups[Len(v.bind_groups) - i]),
       MipDispatch >>

\* lines 146-148: the commands of iteration i
MipIteration(v, i) ==
    << Cmd("set_pipeline", None, v.pipelines[i + 1]),
       Cmd("set_bind_group", 0, v.bind_groups[i + 1]),
       MipDispatch >>

\* one recorded pass of a command encoder
Pass(kind, label, groups, cmds) ==
    [kind |-> kind, label |-> label, groups |-> groups, cmds |-> cmds]

\* VoxelTexture::new on an extent
VoxelNew(size) ==
    /\ vox_pc = "none"
    /\ vox' = VoxelTextureNew(size)
    /\ vox_pc' = "ready"
    /\ UNCHANGED << vox_i, compute_pass >>

\* lines 141-143: begin_compute_pass
MipBegin ==
    /\ vox_pc = "ready"
    /\ vox_pc' = "recording"
    /\ vox_i' = 0
    /\ compute_pass' = << >>
    /\ UNCHANGED << vox, encoder >>

\* lines 145-149: one iteration of the for_each
MipStep ==
    /\ vox_pc = "recording"
    /\ vox_i < MipLoopEnd(vox)
    /\ compute_pass' = compute_pass \o MipIteration(vox, vox_i)
    /\ vox_i' = vox_i + 1
    /\ UNCHANGED << vox, vox_pc, encoder >>

\* line 150: the range is exhausted and the pass is dropped, which ends it
MipEnd ==
    /\ vox_pc = "recording"
    /\ vox_i >= MipLoopEnd(vox)
    /\ vox_pc' = "done"
    /\ encoder' = Append(encoder, Pass("compute", "Mipmap compute pass", << >>, compute_pass))
    /\ UNCHANGED << vox, vox_i, compute_pass >>

-----------------------------------------------------------------------------
(* Scene::generate_pipeline and Scene::draw_pipelines                        *)

\* every pass registered with the arguments of the shadow pass
PassArgs_AllShadow(name) ==
    [shader |-> "shadow_shader",
     bind_group_layouts |-> << "shadow_camera_bind_group_layout" >>,
     targets |-> << >>,
     depth |-> TRUE, cull_back_face |-> TRUE]

\* the arguments State::new passes for each pass (lib.rs lines 466-508)
PassArgs(name) ==
    CASE name = "shadow" ->
           [shader |-> "shadow_shader",
            bind_group_layouts |-> << "shadow_camera_bind_group_layout" >>,
            targets |-> << >>,
            depth |-> TRUE, cull_back_face |-> TRUE]
      [] name = "voxelization" ->
           [shader |-> "voxelizer_shader",
            bind_group_layouts |-> << "diffuse_camera_bind_group_layout",
                                      "voxelizer_texture_bind_group_layout" >>,
            targets |-> << [format |-> "Rgba8Uint", blend |-> "None", write_mask |-> "empty"] >>,
            depth |-> FALSE, cull_back_face |-> FALSE]
      [] name = "main" ->
           [shader |-> "shader",
            bind_group_layouts |-> << "diffuse_camera_bind_group_layout",
                                      "diffuse_texture_bind_group_layout" >>,
            targets |-> << [format |-> "config.format", blend |-> "REPLACE", write_mask |-> "ALL"] >>,
            depth |-> TRUE, cull_back_face |-> TRUE]

PassNames == { "shadow", "voxelization", "main" }

\* a layout list that puts the scene's two layouts in front of the pass's
PipelineLayout_SceneFirst(bind_group_layouts) ==
    << "transform_bind_group_layout", "material_bind_group_layout" >> \o bind_group_layouts

\* lines 570-577: the pass's layouts followed by the scene's two
PipelineLayout(bind_group_layouts) ==
    bind_group_layouts \o << "transform_bind_group_layout", "material_bind_group_layout" >>

\* lines 568-630: the pipeline compiled for one draw record; id is the identity of
\* the object device.create_render_pipeline returns
RenderPipeline(id, render_data, args) ==
    [id |-> id,
     layout |-> PipelineLayout(args.bind_group_layouts),
     vertex_buffers |-> render_data.layouts,
     module |-> args.shader,
     targets |-> args.targets,
     depth_stencil |-> args.depth,
     cull_mode |-> IF args.cull_back_face THEN "Back" ELSE "None"]

\* lines 635-638
PipelineData(pipelines, bind_group_layouts) ==
    [pipeline_list |-> pipelines, bind_group_start_index |-> Len(bind_group_layouts)]

\* an insert that drops the other passes
InsertPipelineData_Clear(map, name, data) == (name :> data)

\* an insert that keeps an entry already present
InsertPipelineData_KeepOld(map, name, data) == map @@ (name :> data)

\* lines 633-639: HashMap::insert replaces the value stored under the key
InsertPipelineData(map, name, data) == (name :> data) @@ map

\* lines 555-640
generate_pipeline(name, args) ==
    /\ phase = "built"
    /\ LET pipelines == [k \in 1 .. Len(render_datas) |->
                            RenderPipeline(n_pipelines + k, render_datas[k], args)]
       IN  /\ pipeline_lists' = InsertPipelineData(pipeline_lists, name,
                                    PipelineData(pipelines, args.bind_group_layouts))
           /\ n_pipelines' = n_pipelines + Len(render_datas)
    /\ calls' = Append(calls, [name |-> name, args |-> args])
    /\ UNCHANGED << sceneVars, pass_cmds, pass_name >>

\* one command of a render pass; the fields a command does not use hold None
DrawCmd(op, slot, object, offset, format, count, instances) ==
    [op |-> op, slot |-> slot, object |-> object, offset |-> offset,
     format |-> format, count |-> count, instances |-> instances]

\* the commands of one pair with the two binding groups bound the other way round
DrawRecordCommands_MaterialFirst(pipeline, render_data, start) ==
    << DrawCmd("set_pipeline", None, pipeline.id, None, "None", None, None) >>
    \o [slot \in 1 .. Len(render_data.used_views) |->
           DrawCmd("set_vertex_buffer", slot - 1,
                   buffers[render_data.used_views[slot].view_index].id,
                   render_data.used_views[slot].offset, "None", None, None)]
    \o << DrawCmd("set_bind_group", start, render_data.material_bind_group_id,
                  None, "None", None, None),
          DrawCmd("set_bind_group", start + 1, render_data.transform_bind_group_id,
                  None, "None", None, None) >>
    \o (IF render_data.index_data.present
        THEN << DrawCmd("set_index_buffer", None,
                        buffers[render_data.index_data.buffer_id].id,
                        render_data.index_data.offset, render_data.index_data.format,
                        None, None),
                DrawCmd("draw_indexed", None, None, None, "None",
                        render_data.draw_count, 1) >>
        ELSE << DrawCmd("draw", None, None, None, "None", render_data.draw_count, 1) >>)

\* lines 646-673: the commands recorded for one (pipeline, draw record) pair;
\* buffers and binding groups are named by their ids
DrawRecordCommands(pipeline, render_data, start) ==
    << DrawCmd("set_pipeline", None, pipeline.id, None, "None", None, None) >>
    \o [slot \in 1 .. Len(render_data.used_views) |->
           DrawCmd("set_vertex_buffer", slot - 1,
                   buffers[render_data.used_views[slot].view_index].id,
                   render_data.used_views[slot].offset, "None", None, None)]
    \o << DrawCmd("set_bind_group", start, render_data.transform_bind_group_id,
                  None, "None", None, None),
          DrawCmd("set_bind_group", start + 1, render_data.material_bind_group_id,
                  None, "None", None, None) >>
    \o (IF render_data.index_data.present
        THEN << DrawCmd("set_index_buffer", None,
                        buffers[render_data.index_data.buffer_id].id,
                        render_data.index_data.offset, render_data.index_data.format,
                        None, None),
                DrawCmd("draw_indexed", None, None, None, "None",
                        render_data.draw_count, 1) >>
        ELSE << DrawCmd("draw", None, None, None, "None", render_data.draw_count, 1) >>)

Min(a, b) == IF a <= b THEN a ELSE b

\* lines 643-645: zip stops at the shorter of the two lists
RECURSIVE DrawLoop(_, _, _, _)
DrawLoop(pipeline_list, start, k, n) ==
    IF k > n THEN << >>
    ELSE DrawRecordCommands(pipeline_list[k], render_datas[k], start)
             \o DrawLoop(pipeline_list, start, k + 1, n)

\* line 644: indexing the map with a name it does not hold panics
DrawPanics(name) == name \notin DOMAIN pipeline_lists

\* lines 642-675, for a registered name
DrawCommands(name) ==
    LET data == pipeline_lists[name]
    IN  DrawLoop(data.pipeline_list, data.bind_group_start_index, 1,
                 Min(Len(data.pipeline_list), Len(render_datas)))

\* a draw that falls back to some registered pass when the name is not registered
draw_pipelines_Fallback(name) ==
    /\ phase = "built"
    /\ pass_name' = name
    /\ IF pipeline_lists = << >>
       THEN /\ phase' = "panicked"
            /\ pass_cmds' = << >>
       ELSE /\ phase' = phase
            /\ pass_cmds' = DrawCommands(IF DrawPanics(name)
                                         THEN CHOOSE other \in DOMAIN pipeline_lists : TRUE
                                         ELSE name)
    /\ UNCHANGED << gltf, nodes, buffers, device_buffers, bind_groups, render_datas,
                    pipeline_lists, n_pipelines, calls >>

\* a draw that registers an empty pipeline set under a name it does not find
draw_pipelines_Lazy(name) ==
    /\ phase = "built"
    /\ pass_name' = name
    /\ pass_cmds' = IF DrawPanics(name) THEN << >> ELSE DrawCommands(name)
    /\ pipeline_lists' = IF DrawPanics(name)
                         THEN InsertPipelineData(pipeline_lists, name,
                                                 PipelineData(<< >>, << >>))
                         ELSE pipeline_lists
    /\ UNCHANGED << sceneVars, n_pipelines, calls >>

\* lines 642-675, called on a built scene with a fresh render pass
draw_pipelines(name) ==
    /\ phase = "built"
    /\ pass_name' = name
    /\ IF DrawPanics(name)
       THEN /\ phase' = "panicked"
            /\ pass_cmds' = << >>
       ELSE /\ phase' = phase
            /\ pass_cmds' = DrawCommands(name)
    /\ UNCHANGED << gltf, nodes, buffers, device_buffers, bind_groups, render_datas,
                    pipeline_lists, n_pipelines, calls >>

-----------------------------------------------------------------------------
(* State::new and State::render (lib.rs)                                     *)

\* the order of the steps of State::new with the voxelization pass and the mip
\* reduction exchanged
AppSuccessor_MipFirst(pc) ==
    CASE pc = "new" -> "load"
      [] pc = "load" -> "generate_shadow"
      [] pc = "generate_shadow" -> "generate_voxelization"
      [] pc = "generate_voxelization" -> "generate_main"
      [] pc = "generate_main" -> "shadow_pass"
      [] pc = "shadow_pass" -> "mipmaps"
      [] pc = "mipmaps" -> "voxelization_pass"
      [] pc = "voxelization_pass" -> "submit"
      [] pc = "submit" -> "ready"

\* the order of the steps of State::new: lines 184, 458, 466, 476, 493, 514, 530,
\* 549, 551
AppSuccessor(pc) ==
    CASE pc = "new" -> "load"
      [] pc = "load" -> "generate_shadow"
      [] pc = "generate_shadow" -> "generate_voxelization"
      [] pc = "generate_voxelization" -> "generate_main"
      [] pc = "generate_main" -> "shadow_pass"
      [] pc = "shadow_pass" -> "voxelization_pass"
      [] pc = "voxelization_pass" -> "mipmaps"
      [] pc = "mipmaps" -> "submit"
      [] pc = "submit" -> "ready"

\* one entry of a binding group: its binding, the resource by name, and the view
\* when the resource is a view of the voxel volume
BindGroupEntry(binding, resource, view) ==
    [binding |-> binding, resource |-> resource, view |-> view]

\* lib.rs lines 382-454: the entries of the pass-level binding groups
AppBindGroup(group) ==
    CASE group = "diffuse_camera_bind_group" ->
           << BindGroupEntry(0, "camera_buffer", NoTextureView),
              BindGroupEntry(1, "shadow_camera_buffer", NoTextureView) >>
      [] group = "voxelizer_texture_bind_group" ->
           << BindGroupEntry(0, "shadow_depth_texture.view", NoTextureView),
              BindGroupEntry(1, "shadow_depth_texture.sampler", NoTextureView),
              BindGroupEntry(2, "voxel_texture view", get_mip_0(vox)),
              BindGroupEntry(3, "lights_buffer", NoTextureView) >>
      [] group = "diffuse_texture_bind_group" ->
           << BindGroupEntry(0, "shadow_depth_texture.view", NoTextureView),
              BindGroupEntry(1, "shadow_depth_texture.sampler", NoTextureView),
              BindGroupEntry(2, "voxel_texture view", main_view(vox)),
              BindGroupEntry(3, "voxel_texture.sampler", NoTextureView),
              BindGroupEntry(4, "lights_buffer", NoTextureView) >>
      [] group = "shadow_camera_bind_group" ->
           << BindGroupEntry(0, "shadow_camera_buffer", NoTextureView) >>

\* the voxelization pass bound to the main pass's texture group
PassGroups_TextureGroupReused(name) ==
    CASE name = "shadow" -> << "shadow_camera_bind_group" >>
      [] name = "voxelization" -> << "diffuse_camera_bind_group",
                                     "diffuse_texture_bind_group" >>
      [] name = "main" -> << "diffuse_camera_bind_group", "diffuse_texture_bind_group" >>

\* the pass-level binding groups each pass sets, slot 0 first (lines 527, 544-545,
\* 628-629)
PassGroups(name) ==
    CASE name = "shadow" -> << "shadow_camera_bind_group" >>
      [] name = "voxelization" -> << "diffuse_camera_bind_group",
                                     "voxelizer_texture_bind_group" >>
      [] name = "main" -> << "diffuse_camera_bind_group", "diffuse_texture_bind_group" >>

\* the label of the render pass of each pass (lines 516, 533, 604)
PassLabel(name) ==
    CASE name = "shadow" -> "Shadow render pass"
      [] name = "voxelization" -> "Voxelization render pass"
      [] name = "main" -> "Main render pass"

\* a render pass that binds the pass's groups and draws the scene with the pass's
\* pipeline set (lines 514-529, 530-547, 602-631)
ScenePass(name) == Pass("render", PassLabel(name), PassGroups(name), DrawCommands(name))

\* lines 184-192
AppVoxelTexture ==
    /\ app_pc = "new"
    /\ VoxelNew(<< VoxelExtent, VoxelExtent, VoxelExtent >>)
    /\ app_pc' = AppSuccessor(app_pc)
    /\ UNCHANGED << sceneVars, pipeVars, encoder, submitted, frames >>

\* lines 458-464: load_gltf(..).await.unwrap(), the loop of from_gltf step by step
AppLoadBegin ==
    /\ app_pc = "load"
    /\ FromGltfBegin
    /\ UNCHANGED << pipeVars, voxVars, appVars >>

AppLoadNode ==
    /\ app_pc = "load"
    /\ FromGltfNode
    /\ app_pc' = IF phase' = "panicked" THEN "panicked" ELSE app_pc
    /\ UNCHANGED << pipeVars, voxVars, encoder, submitted, frames >>

AppLoadReturn ==
    /\ app_pc = "load"
    /\ FromGltfReturn
    /\ app_pc' = AppSuccessor(app_pc)
    /\ UNCHANGED << pipeVars, voxVars, encoder, submitted, frames >>

\* lines 466-508: the three registrations
AppGenerate(name) ==
    /\ app_pc = "generate_" \o name
    /\ generate_pipeline(name, PassArgs(name))
    /\ app_pc' = AppSuccessor(app_pc)
    /\ UNCHANGED << voxVars, encoder, submitted, frames >>

\* lines 514-529 and 530-547: a render pass recorded into the preprocess encoder
AppScenePass(name) ==
    /\ app_pc = name \o "_pass"
    /\ IF DrawPanics(name)
       THEN /\ app_pc' = "panicked"
            /\ encoder' = encoder
       ELSE /\ app_pc' = AppSuccessor(app_pc)
            /\ encoder' = Append(encoder, ScenePass(name))
    /\ UNCHANGED << sceneVars, pipeVars, voxVars, submitted, frames >>

\* line 549: run_generate_mipmaps on the preprocess encoder
AppMipBegin ==
    /\ app_pc = "mipmaps"
    /\ MipBegin
    /\ UNCHANGED << sceneVars, pipeVars, app_pc, submitted, frames >>

AppMipStep ==
    /\ app_pc = "mipmaps"
    /\ MipStep
    /\ UNCHANGED << sceneVars, pipeVars, app_pc, submitted, frames >>

AppMipEnd ==
    /\ app_pc = "mipmaps"
    /\ MipEnd
    /\ app_pc' = AppSuccessor(app_pc)
    /\ UNCHANGED << sceneVars, pipeVars, submitted, frames >>

\* a command buffer handed to the queue
CommandBuffer(label, passes) == [label |-> label, passes |-> passes]

\* line 551
AppSubmit ==
    /\ app_pc = "submit"
    /\ submitted' = Append(submitted, CommandBuffer("Preprocess encoder", encoder))
    /\ encoder' = << >>
    /\ app_pc' = AppSuccessor(app_pc)
    /\ UNCHANGED << sceneVars, pipeVars, voxVars, frames >>

\* lines 591-637: a frame rendered and submitted
Render ==
    /\ app_pc = "ready"
    /\ frames < MaxFrames
    /\ frames' = frames + 1
    /\ IF DrawPanics("main")
       THEN /\ app_pc' = "panicked"
            /\ submitted' = submitted
       ELSE /\ app_pc' = app_pc
            /\ submitted' = Append(submitted,
                                   CommandBuffer("Render encoder", << ScenePass("main") >>))
    /\ UNCHANGED << sceneVars, pipeVars, voxVars, encoder >>

\* line 592: get_current_texture fails and render returns the error
RenderSurfaceError ==
    /\ app_pc = "ready"
    /\ frames < MaxFrames
    /\ frames' = frames + 1
    /\ UNCHANGED << sceneVars, pipeVars, voxVars, app_pc, encoder, submitted >>

-----------------------------------------------------------------------------
(* The scene build on its own                                                *)

IdleRest ==
    /\ pipeline_lists = << >>
    /\ n_pipelines = 0
    /\ calls = << >>
    /\ pass_cmds = << >>
    /\ pass_name = ""
    /\ vox = NoVoxelTexture
    /\ vox_pc = "none"
    /\ vox_i = 0
    /\ compute_pass = << >>
    /\ app_pc = "idle"
    /\ encoder = << >>
    /\ submitted = << >>
    /\ frames = 0

InitScene(docs) ==
    /\ phase = "loaded"
    /\ gltf \in docs
    /\ nodes = << >>
    /\ buffers = << >>
    /\ device_buffers = << >>
    /\ bind_groups = << >>
    /\ render_datas = << >>

Init == InitScene(Docs) /\ IdleRest

Next ==
    \/ FromGltfBegin /\ UNCHANGED << pipeVars, voxVars, appVars >>
    \/ FromGltfNode /\ UNCHANGED << pipeVars, voxVars, appVars >>
    \/ FromGltfReturn /\ UNCHANGED << pipeVars, voxVars, appVars >>

Spec == Init /\ [][Next]_vars

\* the build of a forest as a sequential program: a step that can be taken is taken
InitTermination == InitScene(ForestDocs) /\ IdleRest

\* a step is possible exactly while from_gltf is between its entry and its return
Running == phase \in {"loaded", "building"}

\* weak fairness of Next with its enabling condition written out as Running
FairNext == []<>(~Running) \/ []<><<Next>>_vars

SpecTermination == InitTermination /\ [][Next]_vars /\ FairNext

-----------------------------------------------------------------------------
(* Properties of the scene build                                             *)

Range(seq) == { seq[k] : k \in 1 .. Len(seq) }

\* the binding group with a given id (ids count from 0)
BindGroup(id) == bind_groups[id + 1]

\* the primitive a draw record was made from: its node is the one of its transform
\* group, and the k-th primitive of a node pushes the k-th group after that
PrimitiveOf(rd) ==
    LET node == BindGroup(rd.transform_bind_group_id).node
    IN  gltf.meshes[gltf.mesh[node] + 1]
            [rd.material_bind_group_id - rd.transform_bind_group_id]

\* the attributes of a primitive that have a buffer view, in order
ResolvedAttributes(primitive) ==
    SelectSeq(primitive.attributes, LAMBDA a : a.accessor.view # NoView)

\* every view index a draw record refers to
ReferencedViews(rd) ==
    { v.view_index : v \in Range(rd.used_views) }
        \cup (IF rd.index_data.present THEN { rd.index_data.buffer_id } ELSE {})

\* C1: during a scene build no view is allocated twice: the buffers the device made
\* for views carry pairwise distinct view identities, the cache holds exactly those
\* buffers, one per view, and every view a draw record refers to (as attribute
\* stream or as index reference) resolves to that one buffer.
C1_OneBufferPerView ==
    /\ \A i, j \in 1 .. Len(device_buffers) :
           device_buffers[i].label = device_buffers[j].label => i = j
    /\ phase \in {"building", "built"} =>
           /\ Len(device_buffers) = Cardinality(DOMAIN buffers)
           /\ \A v \in DOMAIN buffers :
                  /\ buffers[v].label = v
                  /\ device_buffers[buffers[v].id] = buffers[v]
           /\ \A rd \in Range(render_datas) : ReferencedViews(rd) \subseteq DOMAIN buffers

\* two draw records refer to the same view, and so do an attribute stream and an
\* index reference; the build has finished
C1_Witness ==
    /\ phase = "built"
    /\ Len(render_datas) = 2
    /\ \E v \in DOMAIN buffers :
           /\ \A rd \in Range(render_datas) : v \in ReferencedViews(rd)
           /\ render_datas[2].index_data.present
           /\ render_datas[2].index_data.buffer_id = v
           /\ \E u \in Range(render_datas[1].used_views) : u.view_index = v

\* the parent of a node of the forest (0 for a root)
ParentOf(doc, node) ==
    IF \E m \in DOMAIN doc.children : node \in Range(doc.children[m])
    THEN CHOOSE m \in DOMAIN doc.children : node \in Range(doc.children[m])
    ELSE 0

\* the product of the local transforms on the path from the root down to the node
RECURSIVE PathTransform(_, _)
PathTransform(doc, node) ==
    IF ParentOf(doc, node) = 0 THEN MatMul(Identity, doc.transform[node])
    ELSE MatMul(PathTransform(doc, ParentOf(doc, node)), doc.transform[node])

\* the nodes whose transform has been uploaded, in upload order
UploadOrder ==
    LET groups == SelectSeq(bind_groups, LAMBDA g : g.kind = "transform")
    IN  [k \in 1 .. Len(groups) |-> groups[k].node]

\* C2: the transform uploaded for a node is total_transform(parent) * local(node),
\* the identity being inherited by a root; the value depends on the forest alone,
\* whatever the order in which the entries of the work list are processed; a node
\* is processed once, after its parent.
C2_TransformAccumulation ==
    /\ \A g \in Range(bind_groups) :
           g.kind = "transform" => g.contents = PathTransform(gltf, g.node)
    /\ \A j, k \in 1 .. Len(UploadOrder) :
           /\ UploadOrder[j] = UploadOrder[k] => j = k
           /\ UploadOrder[j] = ParentOf(gltf, UploadOrder[k]) => j < k

\* a node below a root got its transform, the order of the factors matters for it,
\* and the entries were not taken in the order nodes.pop() gives (first root first)
C2_Witness ==
    /\ phase = "built"
    /\ Len(gltf.roots) = 2
    /\ UploadOrder[1] = gltf.roots[1]
    /\ \E g \in Range(bind_groups) :
           /\ g.kind = "transform"
           /\ ParentOf(gltf, g.node) # 0
           /\ g.contents # MatMul(gltf.transform[g.node],
                                  PathTransform(gltf, ParentOf(gltf, g.node)))

HasPositionStream(primitive) ==
    \E a \in Range(ResolvedAttributes(primitive)) : a.semantic.kind = "Positions"

PositionCount(primitive) ==
    (CHOOSE a \in Range(ResolvedAttributes(primitive)) : a.semantic.kind = "Positions")
        .accessor.count

\* C3 as stated: a primitive with a position stream of N elements and no index
\* accessor gives draw_count = N and no index data.
C3_Original ==
    \A rd \in Range(render_datas) :
        LET primitive == PrimitiveOf(rd) IN
        (HasPositionStream(primitive) /\ primitive.indices = NoIndices) =>
            /\ rd.draw_count = PositionCount(primitive)
            /\ ~ rd.index_data.present

\* C3 (amended): a primitive with a position stream and no index accessor gives a
\* draw record without index data whose draw_count is the element count of the
\* primitive's last resolved attribute stream.
C3_LastResolvedAttribute ==
    \A rd \in Range(render_datas) :
        LET primitive == PrimitiveOf(rd)
            resolved == ResolvedAttributes(primitive)
        IN  (HasPositionStream(primitive) /\ primitive.indices = NoIndices) =>
                /\ rd.draw_count = resolved[Len(resolved)].accessor.count
                /\ ~ rd.index_data.present
                /\ rd.index_data = NoIndexData

\* a draw record of a primitive without indices whose position stream and last
\* stream differ in length
C3_Witness ==
    /\ phase = "built"
    /\ \E rd \in Range(render_datas) :
           LET primitive == PrimitiveOf(rd)
               resolved == ResolvedAttributes(primitive)
           IN  /\ HasPositionStream(primitive)
               /\ primitive.indices = NoIndices
               /\ Len(resolved) = 2
               /\ resolved[2].accessor.count # PositionCount(primitive)

\* C4: a primitive with an index accessor of M elements gives draw_count = M whatever
\* its attribute streams hold, and an index reference of the accessor's width
\* (16-bit: 2-byte format, 32-bit: 4-byte format) with the accessor's byte offset
\* and the view's buffer id.
C4_IndexedDrawRecord ==
    \A rd \in Range(render_datas) :
        LET primitive == PrimitiveOf(rd) IN
        primitive.indices # NoIndices =>
            /\ rd.draw_count = primitive.indices.count
            /\ rd.index_data.present
            /\ primitive.indices.data_type \in {"U16", "U32"}
            /\ primitive.indices.data_type = "U16" =>
                   rd.index_data.format = "Uint16" /\ IndexFormatBytes(rd.index_data.format) = 2
            /\ primitive.indices.data_type = "U32" =>
                   rd.index_data.format = "Uint32" /\ IndexFormatBytes(rd.index_data.format) = 4
            /\ rd.index_data.offset = primitive.indices.offset
            /\ rd.index_data.buffer_id = primitive.indices.view.index

\* both widths occur in one built scene, with attribute streams of another length
C4_Witness ==
    /\ phase = "built"
    /\ \E r1, r2 \in Range(render_datas) :
           /\ PrimitiveOf(r1).indices.data_type = "U16"
           /\ PrimitiveOf(r2).indices.data_type = "U32"
           /\ r2.index_data.offset > 0
           /\ \E a \in Range(ResolvedAttributes(PrimitiveOf(r2))) :
                  a.accessor.count # r2.draw_count

\* every primitive of every mesh-carrying node of the document
DocPrimitives(doc) ==
    UNION { Range(doc.meshes[doc.mesh[n] + 1]) : n \in { m \in DOMAIN doc.mesh : doc.mesh[m] # None } }

\* C5: a scene graph with a primitive that has no resolved attribute stream does not
\* load: no Scene is produced and no draw record is emitted for such a primitive.
C5_NoAttributesIsFatal ==
    /\ \A rd \in Range(render_datas) : Len(rd.used_views) > 0
    /\ phase = "built" =>
           \A primitive \in DocPrimitives(gltf) : Len(ResolvedAttributes(primitive)) > 0

\* the texture bound for a material slot is the given 1x1 default when the slot is
\* empty and the decoded image at the referenced source index otherwise
BoundTextureIs(texture, reference, label, pixel) ==
    IF reference = None
    THEN texture.label = label /\ texture.pixel = pixel /\ texture.index = None
    ELSE texture.label = "loaded image" /\ texture.index = reference

\* C13: the material group of every draw record binds, in this order, the
\* base-color, the metallic-roughness and the normal texture of the primitive's
\* material: a missing base-color or metallic-roughness texture is the opaque white
\* default, a missing normal texture is the flat-normal default, a referenced one is
\* the image at its source index; a missing texture never makes the build fail.
C13_DefaultTextures ==
    /\ \A rd \in Range(render_datas) :
           LET group == BindGroup(rd.material_bind_group_id)
               material == PrimitiveOf(rd).material
           IN  /\ group.kind = "material"
               /\ Len(group.textures) = 3
               /\ BoundTextureIs(group.textures[1], material.base_color_texture,
                                 "white_texture", << 255, 255, 255, 255 >>)
               /\ BoundTextureIs(group.textures[2], material.metallic_roughness_texture,
                                 "white_texture", << 255, 255, 255, 255 >>)
               /\ BoundTextureIs(group.textures[3], material.normal_texture,
                                 "default_normal_texture", << 128, 128, 255, 255 >>)
    /\ gltf \in MaterialDocs => phase # "panicked"
    /\ (gltf \in MaterialDocs /\ phase = "built") => Len(render_datas) = 1

\* a built scene whose material has a metallic-roughness image but neither a
\* base-color nor a normal texture
C13_Witness ==
    /\ phase = "built"
    /\ gltf \in MaterialDocs
    /\ \E rd \in Range(render_datas) :
           LET group == BindGroup(rd.material_bind_group_id)
               material == PrimitiveOf(rd).material
           IN  /\ material.base_color_texture = None
               /\ material.normal_texture = None
               /\ material.metallic_roughness_texture = 1
               /\ group.textures[1] = white_texture
               /\ group.textures[2] = Image(1)
               /\ group.textures[3] = default_normal_texture

\* every buffer view an accessor of the document refers to
DocViews(doc) ==
    { v \in UNION { { a.accessor.view : a \in Range(primitive.attributes) }
                       \cup { primitive.indices.view } : primitive \in DocPrimitives(doc) } :
          v # NoView }

\* the view of the document with a given index
ViewAt(doc, index) == CHOOSE v \in DocViews(doc) : v.index = index

\* C14: the bytes copied into a view's device buffer are exactly the bytes
\* [view.offset, view.offset + view.length) of the view's source buffer and none
\* outside of them, whatever the view's length (a multiple of 4 or not) and also
\* when the view ends at the last byte of its source buffer.
C14_CopiesExactlyTheView ==
    \A b \in Range(device_buffers) :
        LET view == ViewAt(gltf, b.label)
        IN  /\ b.src_buffer = view.buffer
            /\ b.src_from = view.offset
            /\ b.src_to = view.offset + view.length
            /\ b.src_buffer \in 0 .. Len(BufferLengths) - 1 =>
                   b.src_to <= BufferLengths[b.src_buffer + 1]

\* a device buffer whose view names a source buffer that was not decoded
OutOfRangeRequest ==
    \E b \in Range(device_buffers) : b.src_buffer \notin 0 .. Len(BufferLengths) - 1

HasUnsupportedIndices(primitive) ==
    /\ primitive.indices # NoIndices
    /\ primitive.indices.data_type \notin {"U16", "U32"}

\* C16: an index accessor whose component type is neither 16-bit nor 32-bit
\* unsigned (8-bit, say) is fatal to the load: a document with such a primitive
\* never yields a Scene, and no draw record is ever made from such a primitive.
C16_IndexWidthIsFatal ==
    /\ \A rd \in Range(render_datas) : ~ HasUnsupportedIndices(PrimitiveOf(rd))
    /\ phase = "built" =>
           \A primitive \in DocPrimitives(gltf) : ~ HasUnsupportedIndices(primitive)
    /\ (\E primitive \in DocPrimitives(gltf) : HasUnsupportedIndices(primitive)) =>
           /\ phase \in {"loaded", "building", "panicked"}
           /\ phase = "building" => Len(nodes) > 0

\* the build of a document whose second primitive has 8-bit indices, and nothing
\* else that could fail, ended in the panic after the index view's buffer was made
C16_Witness ==
    /\ phase = "panicked"
    /\ gltf = MeshNode(<< PlainPrimitive,
                          Primitive(<< Attr(Positions, APos) >>, AIdx8, DefaultMaterial) >>)
    /\ Len(device_buffers) = 2
    /\ device_buffers[2].label = AIdx8.view.index
    /\ render_datas = << >>

\* the resolved attributes of a primitive whose semantic the renderer knows
KnownAttributes(primitive) ==
    SelectSeq(ResolvedAttributes(primitive),
              LAMBDA a : AttributeFrom(a.semantic) # "Unknown")

\* C17: an attribute whose semantic is not recognized (a second color set, say) is
\* left out of the draw record: the record has a layout fragment and an attribute
\* stream for the recognized resolved attributes only, no fragment carries the
\* location of the unknown tag, and the build of such a primitive completes.
C17_UnknownSemanticsDropped ==
    \A rd \in Range(render_datas) :
        LET known == KnownAttributes(PrimitiveOf(rd))
        IN  /\ Len(rd.layouts) = Len(known)
            /\ Len(rd.used_views) = Len(known)
            /\ \A layout \in Range(rd.layouts) :
                   layout.attributes[1].shader_location
                       # AsU32(AttributeDiscriminant("Unknown"))

\* the identities of the transform groups made for a node
TransformGroupsOf(node) ==
    { id \in 0 .. Len(bind_groups) - 1 :
          BindGroup(id).kind = "transform" /\ BindGroup(id).node = node }

\* C18: a built scene has exactly one transform group per node of the graph, for
\* nodes without a mesh too; a node without a mesh has no draw record, and each of
\* its children has its transform group, holding the node's accumulated transform
\* times the child's local transform.
C18_MeshlessNodes ==
    /\ \A n \in DOMAIN gltf.transform : Cardinality(TransformGroupsOf(n)) <= 1
    /\ \A rd \in Range(render_datas) :
           gltf.mesh[BindGroup(rd.transform_bind_group_id).node] # None
    /\ phase = "built" =>
           /\ \A n \in DOMAIN gltf.transform : Cardinality(TransformGroupsOf(n)) = 1
           /\ \A n \in DOMAIN gltf.transform :
                  gltf.mesh[n] = None =>
                      \A c \in Range(gltf.children[n]) :
                          \E i \in TransformGroupsOf(n), j \in TransformGroupsOf(c) :
                              BindGroup(j).contents
                                  = MatMul(BindGroup(i).contents, gltf.transform[c])

\* a built scene with a mesh-less node that is not a root and has a child with a
\* mesh, the child's draw records being the only two
C18_Witness ==
    /\ phase = "built"
    /\ Len(render_datas) = 2
    /\ \E n \in DOMAIN gltf.transform :
           /\ gltf.mesh[n] = None
           /\ ParentOf(gltf, n) # 0
           /\ \E c \in Range(gltf.children[n]) :
                  /\ gltf.mesh[c] # None
                  /\ \A rd \in Range(render_datas) :
                         BindGroup(rd.transform_bind_group_id).node = c

\* C19: in every draw record layouts and used_views have the same length, and
\* entry k of both describes the k-th resolved attribute of the primitive: the
\* layout its stride and format, the stream its view and byte offset.
C19_LayoutsMatchStreams ==
    \A rd \in Range(render_datas) :
        LET resolved == ResolvedAttributes(PrimitiveOf(rd))
        IN  /\ Len(rd.layouts) = Len(rd.used_views)
            /\ Len(rd.used_views) = Len(resolved)
            /\ \A k \in 1 .. Len(rd.used_views) :
                   LET accessor == resolved[k].accessor IN
                   /\ rd.used_views[k].view_index = accessor.view.index
                   /\ rd.used_views[k].offset = accessor.offset
                   /\ rd.layouts[k].array_stride = ArrayStride(accessor.view, accessor)
                   /\ rd.layouts[k].attributes[1].format = gltf_accessor_to_wgpu(accessor)
                   /\ rd.layouts[k].attributes[1].shader_location
                          = AsU32(AttributeDiscriminant(AttributeFrom(resolved[k].semantic)))

\* a draw record of two streams with different views and formats, and one of a
\* primitive with an attribute tagged unknown
C19_Witness ==
    /\ phase = "built"
    /\ \E rd \in Range(render_datas) :
           /\ Len(rd.used_views) = 2
           /\ rd.used_views[1].view_index # rd.used_views[2].view_index
           /\ rd.layouts[1].attributes[1].format # rd.layouts[2].attributes[1].format
    /\ \E rd \in Range(render_datas) :
           Len(KnownAttributes(PrimitiveOf(rd))) < Len(ResolvedAttributes(PrimitiveOf(rd)))

\* C20: the draw count of a draw record is non-zero only if the record has at least
\* one attribute stream, also when the primitive has an index accessor.
C20_DrawCountNeedsStream ==
    \A rd \in Range(render_datas) :
        rd.draw_count # 0 => Len(rd.used_views) > 0 /\ Len(rd.layouts) > 0

\* the smallest multiple of 4 that is not below n
IsSmallestMultipleOf4(size, n) ==
    /\ size % 4 = 0
    /\ size >= n
    /\ size - n < 4

\* C21: the buffer allocated for a view has the smallest multiple of 4 that is not
\* below the view's byte length as its size, the length itself when that is a
\* multiple of 4; this holds of the allocation size of every length up to
\* MaxLength and of every buffer the device made during a build.
C21_SizeRoundedUpTo4 ==
    /\ \A length \in 0 .. MaxLength :
           LET size == BufferSize(View(0, 0, 0, length, None))
           IN  /\ IsSmallestMultipleOf4(size, length)
               /\ length % 4 = 0 => size = length
    /\ \A b \in Range(device_buffers) :
           /\ IsSmallestMultipleOf4(b.size, ViewAt(gltf, b.label).length)
           /\ ViewAt(gltf, b.label).length % 4 = 0 => b.size = ViewAt(gltf, b.label).length

\* a built scene with a buffer for a view of 6 bytes and one for a view of 36
C21_Witness ==
    /\ phase = "built"
    /\ \E a, b \in Range(device_buffers) :
           /\ ViewAt(gltf, a.label).length = 6 /\ a.size = 8
           /\ ViewAt(gltf, b.label).length = 36 /\ b.size = 36

\* gltf::accessor::Dimensions and DataType
AllDimensions == { "Scalar", "Vec2", "Vec3", "Vec4", "Mat2", "Mat3", "Mat4" }
AllDataTypes == { "I8", "U8", "I16", "U16", "U32", "F32" }

\* the number of components of a dimension and of bytes of a component type
ComponentsOf(dimensions) ==
    [Scalar |-> 1, Vec2 |-> 2, Vec3 |-> 3, Vec4 |-> 4, Mat2 |-> 4, Mat3 |-> 9, Mat4 |-> 16]
        [dimensions]
BytesOf(data_type) ==
    [I8 |-> 1, U8 |-> 1, I16 |-> 2, U16 |-> 2, U32 |-> 4, F32 |-> 4][data_type]

\* the stride the claim gives a stream of this accessor
ClaimedStride(accessor) ==
    IF accessor.view.stride # None THEN accessor.view.stride
    ELSE ComponentsOf(accessor.dimensions) * BytesOf(accessor.data_type)

\* C22: the stride of an attribute stream is the stride its view declares, and
\* without a declared stride the accessor's component count (1, 2, 3, 4 for scalar
\* to vec4; 4, 9, 16 for mat2 to mat4) times its component size (1, 2 or 4 bytes);
\* this holds for every dimension and component type and of every layout fragment
\* of every draw record.
C22_StreamStride ==
    /\ \A dimensions \in AllDimensions, data_type \in AllDataTypes,
          stride \in { None, 8, 24 } :
           LET accessor == Accessor(View(0, 0, 0, 48, stride), 2, 0,
                                    data_type, dimensions, FALSE)
           IN  ArrayStride(accessor.view, accessor) = ClaimedStride(accessor)
    /\ \A rd \in Range(render_datas) :
           LET resolved == ResolvedAttributes(PrimitiveOf(rd))
           IN  \A k \in 1 .. Len(rd.layouts) :
                   rd.layouts[k].array_stride = ClaimedStride(resolved[k].accessor)

\* a draw record with a stream whose view declares a stride larger than the packed
\* one, and one with a stream whose view declares none
C22_Witness ==
    /\ phase = "built"
    /\ \E rd \in Range(render_datas) :
           /\ Len(rd.layouts) = 2
           /\ rd.layouts[1].array_stride = 24
           /\ ResolvedAttributes(PrimitiveOf(rd))[1].accessor.view.stride = 24
    /\ \E rd \in Range(render_datas) :
           /\ Len(rd.layouts) = 2
           /\ ResolvedAttributes(PrimitiveOf(rd))[2].accessor.view.stride = None
           /\ rd.layouts[2].array_stride = 8

\* C26: every draw record names a transform group and a material group that are
\* in the binding-group table, the material group being one made for the node of
\* the transform group; the views of its attribute streams and of its index
\* reference are keys of the buffer map; draw records of one node share the node's
\* one transform group, and no two draw records share a material group.
C26_ValidIds ==
    /\ \A rd \in Range(render_datas) :
           /\ rd.transform_bind_group_id \in 0 .. Len(bind_groups) - 1
           /\ rd.material_bind_group_id \in 0 .. Len(bind_groups) - 1
           /\ BindGroup(rd.transform_bind_group_id).kind = "transform"
           /\ BindGroup(rd.material_bind_group_id).kind = "material"
           /\ BindGroup(rd.material_bind_group_id).node
                  = BindGroup(rd.transform_bind_group_id).node
           /\ \A v \in Range(rd.used_views) : v.view_index \in DOMAIN buffers
           /\ rd.index_data.present => rd.index_data.buffer_id \in DOMAIN buffers
    /\ \A i, j \in 1 .. Len(render_datas) :
           /\ (BindGroup(render_datas[i].transform_bind_group_id).node
                   = BindGroup(render_datas[j].transform_bind_group_id).node)
                  <=> (render_datas[i].transform_bind_group_id
                          = render_datas[j].transform_bind_group_id)
           /\ render_datas[i].material_bind_group_id = render_datas[j].material_bind_group_id
                  => i = j
    /\ phase = "built" =>
           Len(render_datas) = Cardinality({ id \in 0 .. Len(bind_groups) - 1 :
                                                BindGroup(id).kind = "material" })

\* a built scene with two nodes of two primitives each, one of them indexed
C26_Witness ==
    /\ phase = "built"
    /\ Len(render_datas) = 4
    /\ render_datas[1].transform_bind_group_id = render_datas[2].transform_bind_group_id
    /\ render_datas[3].transform_bind_group_id = render_datas[4].transform_bind_group_id
    /\ render_datas[1].transform_bind_group_id # render_datas[3].transform_bind_group_id
    /\ render_datas[2].index_data.present

\* the number of primitives of the meshes of the nodes 1..n of a document
RECURSIVE PrimitiveCount(_, _)
PrimitiveCount(doc, n) ==
    IF n = 0 THEN 0
    ELSE PrimitiveCount(doc, n - 1)
             + (IF doc.mesh[n] = None THEN 0 ELSE Len(doc.meshes[doc.mesh[n] + 1]))

\* the draw records made for a node
RecordsOf(node) ==
    { k \in 1 .. Len(render_datas) :
          BindGroup(render_datas[k].transform_bind_group_id).node = node }

\* the build has returned with an empty work list, every node processed once,
\* (number of nodes) + (number of primitives) binding groups and one draw record
\* per primitive of every mesh-carrying node
ReturnedComplete ==
    LET n == Len(gltf.transform) IN
    /\ phase = "built"
    /\ nodes = << >>
    /\ Len(UploadOrder) = n
    /\ Range(UploadOrder) = 1 .. n
    /\ Len(bind_groups) = n + PrimitiveCount(gltf, n)
    /\ Len(render_datas) = PrimitiveCount(gltf, n)
    /\ \A node \in 1 .. n :
           Cardinality(RecordsOf(node))
               = IF gltf.mesh[node] = None THEN 0
                 ELSE Len(gltf.meshes[gltf.mesh[node] + 1])

\* C27: on every forest the work-list loop of from_gltf comes to its end: the work
\* list is empty, every node was processed exactly once, the binding-group table
\* holds (number of nodes) + (number of primitives) entries and the draw-record
\* list one record per primitive of every mesh-carrying node.
C27_TraversalTerminates == <>ReturnedComplete

\* the build of a forest of three nodes, two of them with the mesh, has returned
C27_Witness ==
    /\ phase = "built"
    /\ nodes = << >>
    /\ Len(gltf.transform) = 3
    /\ Len(gltf.roots) = 1
    /\ Len(gltf.children[gltf.roots[1]]) = 2
    /\ Len(bind_groups) = 7
    /\ Len(render_datas) = 4

-----------------------------------------------------------------------------
(* The traversal with the work list processed in every possible order: the   *)
(* behaviours of from_gltf (which pops the last entry) are among these.      *)

\* forests of every shape whose nodes all carry the mesh or all carry none
TraversalDocs ==
    { doc \in ForestDocs :
          \A n, m \in DOMAIN doc.mesh : doc.mesh[n] = doc.mesh[m] }

InitTraversal == InitScene(TraversalDocs) /\ IdleRest

NextTraversal ==
    \/ FromGltfBegin /\ UNCHANGED << pipeVars, voxVars, appVars >>
    \/ /\ \E at \in 1 .. Len(nodes) : FromGltfNodeAt(at)
       /\ UNCHANGED << pipeVars, voxVars, appVars >>
    \/ FromGltfReturn /\ UNCHANGED << pipeVars, voxVars, appVars >>

SpecTraversal == InitTraversal /\ [][NextTraversal]_vars

-----------------------------------------------------------------------------
(* The voxel mip generator on its own                                        *)

IdleScene ==
    /\ phase = "none"
    /\ gltf = NoScene
    /\ nodes = << >>
    /\ buffers = << >>
    /\ device_buffers = << >>
    /\ bind_groups = << >>
    /\ render_datas = << >>

Extents == (1 .. MaxDim) \cup { VoxelExtent }

InitVoxel == IdleScene /\ IdleRest

NextVoxel ==
    \/ /\ \E w \in Extents, h \in Extents, d \in Extents : VoxelNew(<< w, h, d >>)
       /\ UNCHANGED << sceneVars, pipeVars, appVars >>
    \/ MipBegin /\ UNCHANGED << sceneVars, pipeVars, app_pc, submitted, frames >>
    \/ MipStep /\ UNCHANGED << sceneVars, pipeVars, app_pc, submitted, frames >>
    \/ MipEnd /\ UNCHANGED << sceneVars, pipeVars, app_pc, submitted, frames >>

SpecVoxel == InitVoxel /\ [][NextVoxel]_vars

-----------------------------------------------------------------------------
(* Properties of the voxel mip generator                                     *)

RECURSIVE Pow2(_)
Pow2(n) == IF n = 0 THEN 1 ELSE 2 * Pow2(n - 1)

\* the dispatches of a pass in recorded order, each with the binding group bound at
\* slot 0 and the pipeline set when it was recorded
RECURSIVE Dispatches(_, _, _, _)
Dispatches(cmds, k, pipeline, group) ==
    IF k > Len(cmds) THEN << >>
    ELSE IF cmds[k].op = "set_pipeline"
         THEN Dispatches(cmds, k + 1, << cmds[k].object >>, group)
    ELSE IF cmds[k].op = "set_bind_group" /\ cmds[k].slot = 0
         THEN Dispatches(cmds, k + 1, pipeline, << cmds[k].object >>)
    ELSE IF cmds[k].op = "dispatch_workgroups"
         THEN << [pipeline |-> pipeline, group |-> group, workgroups |-> cmds[k].object] >>
                  \o Dispatches(cmds, k + 1, pipeline, group)
    ELSE Dispatches(cmds, k + 1, pipeline, group)

MipDispatches == Dispatches(compute_pass, 1, << >>, << >>)

LargestExtent(size) ==
    CHOOSE d \in { size[1], size[2], size[3] } : \A e \in { size[1], size[2], size[3] } : e <= d

\* C6: a volume whose largest extent is D gets N = floor(log2 D) + 1 mip levels, one
\* view per level, N - 1 compute pipelines and N - 1 binding groups, binding group i
\* reading the view of level i and writing the view of level i + 1; a finished
\* run_generate_mipmaps has issued N - 1 dispatches (512^3: 10 levels, 9 dispatches).
C6_MipChainShape ==
    vox_pc # "none" =>
        LET N == vox.mip_level_count
            D == LargestExtent(vox.size)
        IN  /\ Pow2(N - 1) <= D /\ D < Pow2(N)
            /\ Len(vox.views) = N
            /\ \A k \in 1 .. N : vox.views[k].base_mip_level = k - 1
            /\ Len(vox.pipelines) = N - 1
            /\ Len(vox.bind_groups) = N - 1
            /\ \A i \in 0 .. N - 2 :
                   /\ vox.bind_groups[i + 1].read.base_mip_level = i
                   /\ vox.bind_groups[i + 1].write.base_mip_level = i + 1
            /\ vox_pc = "done" => Len(MipDispatches) = N - 1
            /\ (D = 512 /\ vox_pc = "done") => N = 10 /\ Len(MipDispatches) = 9

\* the 512^3 volume after its mip chain was generated
C6_Witness ==
    /\ vox_pc = "done"
    /\ vox.size = << 512, 512, 512 >>
    /\ vox.mip_level_count = 10
    /\ Len(MipDispatches) = 9

\* C7: the dispatches are recorded in strictly increasing level order in one compute
\* pass: the j-th dispatch reads level j - 1 and writes level j with its own
\* pipeline and one workgroup (1,1,1), so each level 1..N-1 is written once; the
\* invocation ends with level N - 1 written and the pass, the only one, closed.
C7_DispatchOrder ==
    LET W == MipDispatches
        N == vox.mip_level_count
    IN  /\ vox_pc \in {"recording", "done"} =>
               /\ Len(W) = vox_i
               /\ \A j \in 1 .. Len(W) :
                      /\ Len(W[j].group) = 1 /\ Len(W[j].pipeline) = 1
                      /\ W[j].group[1].read.base_mip_level = j - 1
                      /\ W[j].group[1].write.base_mip_level = j
                      /\ W[j].pipeline[1].label = j - 1
                      /\ W[j].workgroups = << 1, 1, 1 >>
        /\ vox_pc = "done" =>
               /\ { W[j].group[1].write.base_mip_level : j \in 1 .. Len(W) } = 1 .. N - 1
               /\ Len(W) = N - 1
               /\ Len(encoder) = 1
               /\ encoder[1].kind = "compute"
               /\ encoder[1].cmds = compute_pass
               /\ Len(compute_pass) = 3 * (N - 1)
               /\ N > 1 => compute_pass[Len(compute_pass)].op = "dispatch_workgroups"

\* a finished invocation on a volume with at least four levels
C7_Witness ==
    /\ vox_pc = "done"
    /\ vox.mip_level_count >= 4
    /\ Len(MipDispatches) = vox.mip_level_count - 1
    /\ Len(encoder) = 1

-----------------------------------------------------------------------------
(* The pipeline registry: a built scene under any sequence of calls          *)

RegistryDocs ==
    { MeshNode(<< PlainPrimitive, IndexedPrimitive >>),
      MeshNode(<< IndexedPrimitive >>),
      Forest(1, << 0 >>, FALSE, << Translate >>, << None >>, << >>) }

\* the argument lists tried with every name
RegistryArgs == { PassArgs("shadow"), PassArgs("main") }

InitRegistry == InitScene(RegistryDocs) /\ IdleRest

NextRegistry ==
    \/ FromGltfBegin /\ UNCHANGED << pipeVars, voxVars, appVars >>
    \/ FromGltfNode /\ UNCHANGED << pipeVars, voxVars, appVars >>
    \/ FromGltfReturn /\ UNCHANGED << pipeVars, voxVars, appVars >>
    \/ /\ Len(calls) < MaxRegs
       /\ \E name \in PassNames, args \in RegistryArgs : generate_pipeline(name, args)
       /\ UNCHANGED << voxVars, appVars >>
    \/ /\ \E name \in PassNames : draw_pipelines(name)
       /\ UNCHANGED << voxVars, appVars >>

SpecRegistry == InitRegistry /\ [][NextRegistry]_vars

-----------------------------------------------------------------------------
(* Properties of the pipeline registry                                       *)

\* the compiled pipeline objects stored under a name
PipelineIds(name) == { q.id : q \in Range(pipeline_lists[name].pipeline_list) }

\* the position in calls of the most recent registration of a name
LastCall(name) ==
    CHOOSE k \in 1 .. Len(calls) :
        /\ calls[k].name = name
        /\ \A j \in k + 1 .. Len(calls) : calls[j].name # name

\* the pipeline objects the k-th registration compiled: one per draw record
CompiledBy(k) == ((k - 1) * Len(render_datas) + 1) .. (k * Len(render_datas))

\* C9: the pipeline sets of two registered passes have the same length, one pipeline
\* per draw record built from that record's vertex layouts, and share no compiled
\* pipeline; every pass registered stays registered with the set its own
\* registration compiled, whatever was registered after it.
C9_IndependentPipelineSets ==
    /\ \A a \in DOMAIN pipeline_lists :
           /\ Len(pipeline_lists[a].pipeline_list) = Len(render_datas)
           /\ Cardinality(PipelineIds(a)) = Len(render_datas)
           /\ \A k \in 1 .. Len(render_datas) :
                  pipeline_lists[a].pipeline_list[k].vertex_buffers = render_datas[k].layouts
           /\ \A b \in DOMAIN pipeline_lists :
                  a # b => PipelineIds(a) \cap PipelineIds(b) = {}
    /\ \A k \in 1 .. Len(calls) :
           /\ calls[k].name \in DOMAIN pipeline_lists
           /\ (\A j \in k + 1 .. Len(calls) : calls[j].name # calls[k].name) =>
                  PipelineIds(calls[k].name) = CompiledBy(k)

\* "shadow" then "main" were registered on a scene with two draw records
C9_Witness ==
    /\ phase = "built"
    /\ Len(render_datas) = 2
    /\ Len(calls) = 2
    /\ calls[1].name = "shadow" /\ calls[2].name = "main"
    /\ DOMAIN pipeline_lists = { "shadow", "main" }
    /\ PipelineIds("shadow") = { 1, 2 }
    /\ PipelineIds("main") = { 3, 4 }

\* C10: after any sequence of registrations each name maps to the pipeline set, the
\* shader and the start slot of its most recent registration, and the registered
\* names are exactly the distinct names used.
C10_ReRegistrationReplaces ==
    /\ DOMAIN pipeline_lists = { calls[k].name : k \in 1 .. Len(calls) }
    /\ Cardinality(DOMAIN pipeline_lists)
           = Cardinality({ calls[k].name : k \in 1 .. Len(calls) })
    /\ \A name \in DOMAIN pipeline_lists :
           LET k == LastCall(name)
               data == pipeline_lists[name]
           IN  /\ PipelineIds(name) = CompiledBy(k)
               /\ data.bind_group_start_index = Len(calls[k].args.bind_group_layouts)
               /\ \A q \in Range(data.pipeline_list) : q.module = calls[k].args.shader

\* a name registered twice with different layouts, on a scene with draw records
C10_Witness ==
    /\ phase = "built"
    /\ Len(render_datas) = 2
    /\ Len(calls) = 2
    /\ calls[1].name = "main" /\ calls[2].name = "main"
    /\ Len(calls[1].args.bind_group_layouts) = 2
    /\ Len(calls[2].args.bind_group_layouts) = 1
    /\ pipeline_lists["main"].bind_group_start_index = 1
    /\ PipelineIds("main") = { 3, 4 }

\* C11: a registration compiles one pipeline per draw record, in list order
\* (pipeline i belongs to draw record i); the binding-layout list of each is the
\* extra layouts passed in, then the transform layout, then the material layout; its
\* vertex layouts are the layout fragments of its draw record; the start slot stored
\* with the set is the number of extra layouts.
C11_PipelinePerDrawRecord ==
    \A name \in DOMAIN pipeline_lists :
        LET data == pipeline_lists[name]
            extra == calls[LastCall(name)].args.bind_group_layouts
            first == (LastCall(name) - 1) * Len(render_datas)
        IN  /\ Len(data.pipeline_list) = Len(render_datas)
            /\ data.bind_group_start_index = Len(extra)
            /\ \A i \in 1 .. Len(data.pipeline_list) :
                   LET q == data.pipeline_list[i] IN
                   /\ q.id = first + i
                   /\ Len(q.layout) = Len(extra) + 2
                   /\ \A j \in 1 .. Len(extra) : q.layout[j] = extra[j]
                   /\ q.layout[Len(extra) + 1] = "transform_bind_group_layout"
                   /\ q.layout[Len(extra) + 2] = "material_bind_group_layout"
                   /\ data.bind_group_start_index + 1 \in DOMAIN q.layout
                   /\ q.layout[data.bind_group_start_index + 1] = "transform_bind_group_layout"
                   /\ q.vertex_buffers = render_datas[i].layouts

\* a pass with two extra layouts registered after another one, on a scene whose two
\* draw records have different vertex layouts
C11_Witness ==
    /\ phase = "built"
    /\ Len(render_datas) = 2
    /\ render_datas[1].layouts # render_datas[2].layouts
    /\ Len(calls) = 2
    /\ "main" \in DOMAIN pipeline_lists
    /\ LastCall("main") = 2
    /\ Len(calls[2].args.bind_group_layouts) = 2
    /\ Len(pipeline_lists["main"].pipeline_list) = 2
    /\ pipeline_lists["main"].pipeline_list[2].vertex_buffers = render_datas[2].layouts

\* the number of commands one draw record takes: the pipeline, one per attribute
\* stream, the two binding groups, and the draw with or without its index buffer
SegmentLength(rd) ==
    1 + Len(rd.used_views) + 2 + (IF rd.index_data.present THEN 2 ELSE 1)

\* the position in the pass of the first command of draw record k
RECURSIVE SegmentStart(_)
SegmentStart(k) ==
    IF k = 1 THEN 1 ELSE SegmentStart(k - 1) + SegmentLength(render_datas[k - 1])

\* C12: the commands of a draw_pipelines call are, for each (pipeline, draw record)
\* pair in stored order: the pipeline is bound; then each attribute stream's buffer
\* at its slot 0, 1, .. from the stream's byte offset; then the transform group at
\* the start slot and the material group at the start slot + 1; then exactly one
\* draw of one instance: an indexed draw of draw_count indices after the index
\* buffer was bound when the record has an index reference, a non-indexed draw of
\* draw_count vertices otherwise.
C12_DrawCommandOrder ==
    pass_cmds # << >> =>
        \E reg \in 1 .. Len(calls) :
            LET start == Len(calls[reg].args.bind_group_layouts)
                first == (reg - 1) * Len(render_datas)
            IN  /\ Len(pass_cmds) = SegmentStart(Len(render_datas) + 1) - 1
                /\ \A k \in 1 .. Len(render_datas) :
                       LET rd == render_datas[k]
                           at == SegmentStart(k)
                           n  == Len(rd.used_views)
                           draws == { j \in at .. at + SegmentLength(rd) - 1 :
                                         pass_cmds[j].op \in {"draw", "draw_indexed"} }
                       IN  /\ pass_cmds[at].op = "set_pipeline"
                           /\ pass_cmds[at].object = first + k
                           /\ \A j \in 1 .. n :
                                  /\ pass_cmds[at + j].op = "set_vertex_buffer"
                                  /\ pass_cmds[at + j].slot = j - 1
                                  /\ pass_cmds[at + j].object
                                         = buffers[rd.used_views[j].view_index].id
                                  /\ pass_cmds[at + j].offset = rd.used_views[j].offset
                           /\ pass_cmds[at + n + 1].op = "set_bind_group"
                           /\ pass_cmds[at + n + 1].slot = start
                           /\ pass_cmds[at + n + 1].object = rd.transform_bind_group_id
                           /\ pass_cmds[at + n + 2].op = "set_bind_group"
                           /\ pass_cmds[at + n + 2].slot = start + 1
                           /\ pass_cmds[at + n + 2].object = rd.material_bind_group_id
                           /\ draws = { at + SegmentLength(rd) - 1 }
                           /\ pass_cmds[at + SegmentLength(rd) - 1].count = rd.draw_count
                           /\ pass_cmds[at + SegmentLength(rd) - 1].instances = 1
                           /\ IF rd.index_data.present
                              THEN /\ pass_cmds[at + n + 3].op = "set_index_buffer"
                                   /\ pass_cmds[at + n + 3].object
                                          = buffers[rd.index_data.buffer_id].id
                                   /\ pass_cmds[at + n + 3].offset = rd.index_data.offset
                                   /\ pass_cmds[at + n + 3].format = rd.index_data.format
                                   /\ pass_cmds[at + n + 4].op = "draw_indexed"
                              ELSE pass_cmds[at + n + 3].op = "draw"

\* a pass with start slot 2 was drawn on a scene with a non-indexed draw record of
\* one stream followed by an indexed one of two streams
C12_Witness ==
    /\ phase = "built"
    /\ Len(render_datas) = 2
    /\ ~ render_datas[1].index_data.present
    /\ render_datas[2].index_data.present
    /\ Len(pass_cmds) = 12
    /\ pass_cmds[3].slot = 2
    /\ pass_cmds[5].op = "draw"
    /\ pass_cmds[12].op = "draw_indexed"

\* C23: once from_gltf has returned, no generate_pipeline or draw_pipelines call
\* changes the buffer map, the buffers made, the binding-group table or the
\* draw-record list; the pipeline-set map changes only in a generate_pipeline call
\* (one that is logged in calls) and never in a draw_pipelines call.
C23_CacheReadOnlyAfterBuild ==
    [][ phase = "built" =>
            /\ buffers' = buffers
            /\ device_buffers' = device_buffers
            /\ bind_groups' = bind_groups
            /\ render_datas' = render_datas
            /\ gltf' = gltf
            /\ pipeline_lists' # pipeline_lists => Len(calls') = Len(calls) + 1
            /\ n_pipelines' # n_pipelines => Len(calls') = Len(calls) + 1
            /\ Len(calls') = Len(calls) => pipeline_lists' = pipeline_lists ]_vars

\* two registrations and a draw were made on a built scene with buffers, binding
\* groups and draw records
C23_Witness ==
    /\ phase = "built"
    /\ Len(calls) = 2
    /\ pass_cmds # << >>
    /\ Cardinality(DOMAIN buffers) = 3
    /\ Len(bind_groups) = 3
    /\ Len(render_datas) = 2

\* the pipeline objects a draw bound
PipelinesBound == { c.object : c \in { d \in Range(pass_cmds) : d.op = "set_pipeline" } }

\* C29: a draw_pipelines call with a pass name no generate_pipeline call has
\* registered aborts with nothing recorded: no pipeline, buffer or binding group
\* was bound and no draw issued; the pipelines a draw binds are those a
\* registration of its own pass name compiled, never those of another pass.
C29_UnregisteredPassAborts ==
    /\ (pass_name # "" /\ pass_name \notin { calls[k].name : k \in 1 .. Len(calls) }) =>
           /\ phase = "panicked"
           /\ pass_cmds = << >>
    /\ (pass_name # "" /\ phase = "built") =>
           \E k \in 1 .. Len(calls) :
               /\ calls[k].name = pass_name
               /\ PipelinesBound \subseteq CompiledBy(k)
               /\ Len(render_datas) > 0 => PipelinesBound # {}
    /\ phase = "panicked" => PipelinesBound = {} /\ pass_cmds = << >>

\* "main" was drawn on a scene with draw records where only "shadow" had been
\* registered
C29_Witness ==
    /\ phase = "panicked"
    /\ pass_name = "main"
    /\ DOMAIN pipeline_lists = { "shadow" }
    /\ Len(render_datas) = 2
    /\ pass_cmds = << >>

-----------------------------------------------------------------------------
(* The renderer as State::new and the frame loop run it                      *)

AppDocs ==
    { MeshNode(<< PlainPrimitive, IndexedPrimitive >>),
      MeshNode(<< IndexedPrimitive >>),
      MeshNode(<< PlainPrimitive, Primitive(<< Attr(Positions, APos) >>, AIdx8,
                                            DefaultMaterial) >>),
      Forest(2, << 0, 1 >>, FALSE, << Translate, RotateZ >>, << None, 0 >>,
             << << PlainPrimitive, IndexedPrimitive >> >>),
      Forest(2, << 0, 0 >>, TRUE, << RotateZ, Translate >>, << 0, 0 >>,
             << << IndexedPrimitive >> >>),
      Forest(1, << 0 >>, FALSE, << Translate >>, << None >>, << >>) }

InitApp ==
    /\ InitScene(AppDocs)
    /\ pipeline_lists = << >>
    /\ n_pipelines = 0
    /\ calls = << >>
    /\ pass_cmds = << >>
    /\ pass_name = ""
    /\ vox = NoVoxelTexture
    /\ vox_pc = "none"
    /\ vox_i = 0
    /\ compute_pass = << >>
    /\ app_pc = "new"
    /\ encoder = << >>
    /\ submitted = << >>
    /\ frames = 0

NextApp ==
    \/ AppVoxelTexture
    \/ AppLoadBegin
    \/ AppLoadNode
    \/ AppLoadReturn
    \/ \E name \in PassNames : AppGenerate(name)
    \/ \E name \in { "shadow", "voxelization" } : AppScenePass(name)
    \/ AppMipBegin
    \/ AppMipStep
    \/ AppMipEnd
    \/ AppSubmit
    \/ Render
    \/ RenderSurfaceError

SpecApp == InitApp /\ [][NextApp]_vars

-----------------------------------------------------------------------------
(* Properties of the orchestrator                                            *)

PassLabels(passes) == [k \in 1 .. Len(passes) |-> passes[k].label]

PreprocessOrder ==
    << "Shadow render pass", "Voxelization render pass", "Mipmap compute pass" >>

IsPrefix(a, b) == Len(a) <= Len(b) /\ \A k \in 1 .. Len(a) : a[k] = b[k]

\* the pipelines a render pass sets
PassPipelines(pass) ==
    { pass.cmds[k].object : k \in { j \in 1 .. Len(pass.cmds) : pass.cmds[j].op = "set_pipeline" } }

\* C8: State::new records the shadow pass, the voxelization pass and the mip
\* reduction in that order in one command stream and submits it once, before any
\* main pass; every later submission is a render() holding the main pass alone; and
\* each scene pass draws with the pipeline set of its own name.
C8_PassOrder ==
    /\ IsPrefix(PassLabels(encoder), PreprocessOrder)
    /\ \A k \in 1 .. Len(submitted) :
           IF k = 1
           THEN /\ submitted[k].label = "Preprocess encoder"
                /\ PassLabels(submitted[k].passes) = PreprocessOrder
                /\ PassPipelines(submitted[k].passes[1]) = PipelineIds("shadow")
                /\ PassPipelines(submitted[k].passes[2]) = PipelineIds("voxelization")
                /\ submitted[k].passes[3].kind = "compute"
                /\ Len(Dispatches(submitted[k].passes[3].cmds, 1, << >>, << >>))
                       = vox.mip_level_count - 1
           ELSE /\ submitted[k].label = "Render encoder"
                /\ PassLabels(submitted[k].passes) = << "Main render pass" >>
                /\ PassPipelines(submitted[k].passes[1]) = PipelineIds("main")
    /\ frames > 0 => Len(submitted) >= 1
    /\ app_pc = "ready" => Len(submitted) >= 1
    /\ Len(submitted) <= 1 + frames

\* two frames were rendered after the preprocess submission
C8_Witness ==
    /\ app_pc = "ready"
    /\ frames = 2
    /\ Len(submitted) = 3
    /\ Len(render_datas) >= 2
    /\ submitted[3].passes[1].label = "Main render pass"

\* every render pass recorded so far, submitted or not
RenderPasses ==
    { pass \in Range(encoder) \cup UNION { Range(submitted[k].passes) : k \in 1 .. Len(submitted) } :
          pass.kind = "render" }

\* the pass name a render pass was recorded for
PassNameOf(pass) == CHOOSE name \in PassNames : PassLabel(name) = pass.label

\* the resources a binding group refers to
ResourcesOf(group) == { e.resource : e \in Range(AppBindGroup(group)) }

\* the views of the voxel volume a binding group refers to
VoxelViewsOf(group) ==
    { e.view : e \in { f \in Range(AppBindGroup(group)) : f.view # NoTextureView } }

\* C24: every recorded pass has exactly its declared pass-level groups bound, slot
\* 0 first, for its draw: the shadow pass the light-space camera group alone; the
\* voxelization pass the camera group and the voxel-write group, whose view of the
\* voxel volume is mip level 0 alone; the main pass the camera group and the
\* diffuse-texture group, which refers to the shadow map and to the view of all
\* mip levels of the voxel volume.
C24_PassLevelGroups ==
    \A pass \in RenderPasses :
        /\ pass.label = "Shadow render pass" =>
               /\ Len(pass.groups) = 1
               /\ ResourcesOf(pass.groups[1]) = { "shadow_camera_buffer" }
        /\ pass.label = "Voxelization render pass" =>
               /\ Len(pass.groups) = 2
               /\ "camera_buffer" \in ResourcesOf(pass.groups[1])
               /\ VoxelViewsOf(pass.groups[2])
                      = { [base_mip_level |-> 0, mip_level_count |-> 1] }
        /\ pass.label = "Main render pass" =>
               /\ Len(pass.groups) = 2
               /\ "camera_buffer" \in ResourcesOf(pass.groups[1])
               /\ "shadow_depth_texture.view" \in ResourcesOf(pass.groups[2])
               /\ VoxelViewsOf(pass.groups[2])
                      = { [base_mip_level |-> 0, mip_level_count |-> vox.mip_level_count] }
               /\ vox.mip_level_count = 10

\* the three passes were recorded on a scene with draw records
C24_Witness ==
    /\ app_pc = "ready"
    /\ Len(render_datas) >= 2
    /\ { pass.label : pass \in RenderPasses }
           = { "Shadow render pass", "Voxelization render pass", "Main render pass" }

\* the slots at which the commands of a pass bind a group
SlotsBound(pass) ==
    { c.slot : c \in { d \in Range(pass.cmds) : d.op = "set_bind_group" } }

\* C25: the pass-level groups of every recorded pass fill the slots 0..k-1, k being
\* the start slot registered for the pass's name, and the draw binds groups at the
\* slots k and k+1 only; a pass is drawn only under a name registered before.
C25_StartSlotAlignment ==
    /\ \A pass \in RenderPasses :
           LET name == PassNameOf(pass) IN
           /\ name \in DOMAIN pipeline_lists
           /\ Len(pass.groups) = pipeline_lists[name].bind_group_start_index
           /\ SlotsBound(pass) \subseteq { Len(pass.groups), Len(pass.groups) + 1 }
           /\ Len(render_datas) > 0 =>
                  SlotsBound(pass) = { Len(pass.groups), Len(pass.groups) + 1 }
    /\ app_pc = "shadow_pass" => "shadow" \in DOMAIN pipeline_lists
    /\ app_pc = "voxelization_pass" => "voxelization" \in DOMAIN pipeline_lists
    /\ app_pc = "ready" => "main" \in DOMAIN pipeline_lists
    /\ app_pc = "panicked" => phase = "panicked"

\* a frame was rendered after the preprocess passes on a scene with draw records
C25_Witness ==
    /\ app_pc = "ready"
    /\ frames >= 1
    /\ Len(submitted) = 2
    /\ Len(render_datas) >= 2
    /\ pipeline_lists["shadow"].bind_group_start_index = 1
    /\ pipeline_lists["main"].bind_group_start_index = 2
    /\ \E pass \in RenderPasses : pass.label = "Main render pass" /\ SlotsBound(pass) = { 2, 3 }

-----------------------------------------------------------------------------
(* Properties of the buffer cache and the attribute loop                     *)

\* the cache requests of a draw record's primitive, in program order: one per
\* attribute with a buffer view, then one for the index accessor
RequestsOf(rd) ==
    LET primitive == PrimitiveOf(rd)
        resolved == ResolvedAttributes(primitive)
    IN  [k \in 1 .. Len(resolved) |->
            [view |-> resolved[k].accessor.view.index, usage |-> VertexUsage]]
        \o (IF primitive.indices = NoIndices THEN << >>
            ELSE << [view |-> primitive.indices.view.index, usage |-> IndexUsage] >>)

\* the cache requests of all primitives that have a draw record, in program order
RECURSIVE RequestsUpTo(_)
RequestsUpTo(k) ==
    IF k = 0 THEN << >> ELSE RequestsUpTo(k - 1) \o RequestsOf(render_datas[k])

AllRequests == RequestsUpTo(Len(render_datas))

\* the usage of the earliest request for a view
FirstUsage(view_index) ==
    LET reqs == AllRequests
        first == CHOOSE k \in 1 .. Len(reqs) :
                     /\ reqs[k].view = view_index
                     /\ \A j \in 1 .. (k - 1) : reqs[j].view # view_index
    IN  reqs[first].usage

\* C28: the usage flags of a cached buffer are those of the first request for its
\* view: a later request for the same view with another usage neither creates a
\* second buffer nor changes the flags of the existing one.
C28_FirstRequestFixesUsage ==
    phase \in {"building", "built"} =>
        /\ DOMAIN buffers = { r.view : r \in Range(AllRequests) }
        /\ Len(device_buffers) = Cardinality({ r.view : r \in Range(AllRequests) })
        /\ \A v \in DOMAIN buffers :
               /\ buffers[v].usage = FirstUsage(v)
               /\ device_buffers[buffers[v].id].usage = FirstUsage(v)

\* a built scene in which a view was first requested as an index buffer and later
\* as a vertex buffer: its one buffer has the index usage
C28_Witness ==
    /\ phase = "built"
    /\ \E v \in DOMAIN buffers :
           /\ \E r1, r2 \in Range(AllRequests) :
                  r1.view = v /\ r2.view = v /\ r1.usage = IndexUsage /\ r2.usage = VertexUsage
           /\ buffers[v].usage = IndexUsage
           /\ Cardinality({ d \in Range(device_buffers) : d.label = v }) = 1

\* the primitive has an attribute whose accessor has no buffer view
HasViewlessAttribute(primitive) ==
    \E a \in Range(primitive.attributes) : a.accessor.view = NoView

\* accessors whose view lies inside buffer 0 and whose format the vertex stage knows
SoundAccessors == { APos, APosI, ANormal, ATex }

\* apart from attributes without a buffer view, nothing in the primitive can fail
SoundButViewless(primitive) ==
    /\ HasViewlessAttribute(primitive)
    /\ primitive.indices = NoIndices
    /\ \A a \in Range(ResolvedAttributes(primitive)) : a.accessor \in SoundAccessors

\* C30: an attribute whose accessor has no buffer view is skipped without error: the
\* draw record has a layout fragment and a stream for exactly the attributes with a
\* view, in order, no buffer is made for the missing view, the draw count is the one
\* of the last attribute with a view (0 if there is none), and the attributes after
\* the skipped one are all there.
C30_ViewlessAttributeSkipped ==
    /\ (\A primitive \in DocPrimitives(gltf) : SoundButViewless(primitive))
           => phase # "panicked"
    /\ NoView.index \notin DOMAIN buffers
    /\ \A d \in Range(device_buffers) : d.label # NoView.index
    /\ phase \in {"building", "built"} =>
           \A rd \in Range(render_datas) :
               LET primitive == PrimitiveOf(rd)
                   resolved == ResolvedAttributes(primitive)
               IN  HasViewlessAttribute(primitive) =>
                       /\ Len(rd.layouts) = Len(resolved)
                       /\ Len(rd.used_views) = Len(resolved)
                       /\ \A k \in 1 .. Len(resolved) :
                              /\ rd.layouts[k] =
                                     VertexLayout(resolved[k].semantic, resolved[k].accessor)
                              /\ rd.used_views[k] = ViewData(resolved[k].accessor)
                              /\ resolved[k].accessor.view.index \in DOMAIN buffers
                       /\ primitive.indices = NoIndices =>
                              rd.draw_count = IF resolved = << >> THEN 0
                                              ELSE resolved[Len(resolved)].accessor.count

\* a built scene with a primitive whose second attribute has no view (the draw count
\* stays the first attribute's) and one whose first attribute has no view (the
\* second attribute is still recorded)
C30_Witness ==
    /\ phase = "built"
    /\ Len(render_datas) = 2
    /\ LET p1 == PrimitiveOf(render_datas[1])
           p2 == PrimitiveOf(render_datas[2])
       IN  /\ Len(p1.attributes) = 2 /\ p1.attributes[2].accessor.view = NoView
           /\ p1.indices = NoIndices
           /\ render_datas[1].draw_count = p1.attributes[1].accessor.count
           /\ render_datas[1].draw_count # p1.attributes[2].accessor.count
           /\ Len(render_datas[1].used_views) = 1
           /\ Len(p2.attributes) = 2 /\ p2.attributes[1].accessor.view = NoView
           /\ Len(render_datas[2].layouts) = 1
           /\ render_datas[2].used_views[1] = ViewData(p2.attributes[2].accessor)

====
